---- MODULE Spec2Model ----
(***************************************************************************)
(* Dyld shared cache loader core (view/sharedcache/core): cache topology   *)
(* parsing, slide rewriting, on-demand image / region loading and the      *)
(* copy-on-write persisted controller state.                               *)
(*                                                                         *)
(* The specifications of this module:                                      *)
(*   SpecCTP   - format detection and backing caches of initial load       *)
(*   SpecSplit - initial load: non-image regions split around segments     *)
(*   SpecSlide - ParseAndApplySlideInfoForFile on one file accessor        *)
(*   SpecRace  - two threads in ParseAndApplySlideInfoForFile on one file  *)
(*   SpecTrie  - ReadExportNode on one export trie buffer                  *)
(*   SpecSem   - the counting semaphore of the file accessors              *)
(*   SpecHdr   - LoadHeaderForAddress and the image loop of initial load   *)
(*   SpecSeg   - the segment load commands of LoadHeaderForAddress         *)
(*   SpecFS    - the function-starts walk of InitializeHeader              *)
(*   Spec      - controllers on one view: construction, load_image,        *)
(*               load_section_at, load_all_symbols_and_wait, persistence   *)
(***************************************************************************)
EXTENDS Integers, Sequences, FiniteSets, TLC

VARIABLES
    ctp,        \* SpecCTP: one run of the topology parser on an input cache
    sr,         \* SpecSlide, SpecRace: one file accessor and the runs of the slide rewriter on it
    heap,       \* Spec: State objects, by identity (shared_ptr<State> targets)
    ctl,        \* Spec: per controller: m_state, m_stateIsShared, m_metadataValid, pc, locals
    vs,         \* Spec: ViewSpecificState: cachedState, mutation lock owner, progress
    view,       \* Spec: host view: metadata, user segments, raw view end, undo brackets
    hist,       \* Spec: history of what operations did (observations at return)
    trie,       \* SpecTrie: one export trie buffer and the result of walking it
    sem,        \* SpecSem: the file-accessor semaphore and the threads using it
    hdr         \* SpecHdr, SpecSeg, SpecFS: Mach-O images and the results of loading their headers

vars == <<ctp, sr, heap, ctl, vs, view, hist, trie, sem, hdr>>

NoValue == "none"

\* std::optional and nullable pointers: the empty sequence or a one-element one
None == <<>>
Some(x) == <<x>>
IsSome(o) == o # <<>>
Get(o) == o[1]

(***************************************************************************)
(* Bounds of the model.                                                    *)
(***************************************************************************)
MaxSubCaches == 2
MaxAddr == 4
MaxSegs == 2
MaxSegSize == 2
MaxLoc == 1
MaxRuns == 2
MaxOps == 4
WordBits == 4

(***************************************************************************)
(* Program constants.                                                      *)
(***************************************************************************)
\* offsetof(dyld_cache_header, cacheType) + sizeof(cacheType)
OffCacheTypeEnd == 112
\* offsetof(dyld_cache_header, subCacheArrayOffset)
OffSubCacheArrayOffset == 392
\* offsetof(dyld_cache_header, subCacheArrayCount) + sizeof(subCacheArrayCount)
OffSubCacheArrayCountEnd == 400
\* offsetof(dyld_cache_header, imagesCountOld) + sizeof(imagesCountOld)
OffImagesCountOldEnd == 32
\* offsetof(dyld_cache_header, imagesCount) + sizeof(imagesCount)
OffImagesCountEnd == 456
\* offsetof(dyld_cache_header, objcOptsSize) + sizeof(objcOptsSize)
OffObjcOptsEnd == 480

Formats == {"Regular", "Split", "Large", "iOS16"}

Min(a, b) == IF a < b THEN a ELSE b

RECURSIVE SeqSum(_)
SeqSum(s) == IF s = <<>> THEN 0 ELSE Head(s) + SeqSum(Tail(s))

RECURSIVE Flatten(_)
Flatten(ss) == IF ss = <<>> THEN <<>> ELSE Head(ss) \o Flatten(Tail(ss))

Range(s) == {s[i] : i \in DOMAIN s}

(***************************************************************************)
(* Reading the primary dyld_cache_header.  The header object is            *)
(* zero-initialised and only min(header_size, sizeof) bytes are copied,    *)
(* where header_size is the u32 at offset 16 (the mappingOffset field): a  *)
(* field that ends after mappingOffset keeps its zero.                     *)
(***************************************************************************)
ReadPrimaryHeader(raw) ==
    [ mappingOffset      |-> raw.mappingOffset,
      imagesCountOld     |-> IF OffImagesCountOldEnd <= raw.mappingOffset
                             THEN raw.imagesCountOld ELSE 0,
      cacheType          |-> IF OffCacheTypeEnd <= raw.mappingOffset
                             THEN raw.cacheType ELSE 0,
      subCacheArrayCount |-> IF OffSubCacheArrayCountEnd <= raw.mappingOffset
                             THEN raw.subCacheArrayCount ELSE 0,
      imagesCount        |-> IF OffImagesCountEnd <= raw.mappingOffset
                             THEN raw.imagesCount ELSE 0,
      objcOptsOffset     |-> IF OffObjcOptsEnd <= raw.mappingOffset
                             THEN raw.objcOptsOffset ELSE 0,
      objcOptsSize       |-> IF OffObjcOptsEnd <= raw.mappingOffset
                             THEN raw.objcOptsSize ELSE 0 ]

HeaderLongEnough(h) == h.mappingOffset > OffSubCacheArrayOffset

(***************************************************************************)
(* Format detection of PerformInitialLoad: cacheFormat starts as Regular.  *)
(***************************************************************************)
InitialLoadCacheFormat(h, exists01) ==
    IF HeaderLongEnough(h)
    THEN IF h.cacheType # 2
         THEN IF exists01 THEN "Large" ELSE "Split"
         ELSE "iOS16"
    ELSE "Regular"

(***************************************************************************)
(* Format detection of FastGetBackingCacheCount: the local cacheFormat is  *)
(* declared without an initialiser and assigned only when imagesCountOld   *)
(* is non-zero or the header is long enough.  Otherwise the switch reads   *)
(* an indeterminate value: any format, or no case at all.                  *)
(***************************************************************************)
FastCacheFormats(h, exists01) ==
    IF HeaderLongEnough(h)
    THEN { IF h.cacheType # 2
           THEN IF exists01 THEN "Large" ELSE "Split"
           ELSE "iOS16" }
    ELSE IF h.imagesCountOld # 0
         THEN {"Regular"}
         ELSE Formats \cup {NoValue}

\* The value the switch of FastGetBackingCacheCount returns for a format; with
\* no matching case control runs off the end of the function and the value
\* returned is indeterminate.
FastCountsForFormat(fmt, h) ==
    CASE fmt = "Regular" -> {1}
      [] fmt = "Large"   -> {h.subCacheArrayCount + 1}
      [] fmt = "Split"   -> {h.subCacheArrayCount + 2}
      [] fmt = "iOS16"   -> {h.subCacheArrayCount + 2}
      [] OTHER           -> 0 .. (MaxSubCaches + 2)

(***************************************************************************)
(* Mach-O header loader.  A Mach-O image on disk is a magic and a list of  *)
(* load commands; each command carries whether its cmdsize is at least     *)
(* sizeof(load_command).                                                   *)
(***************************************************************************)
\* base_name(path): the part after the last separator.  A path or install
\* name is the tuple of its components, the last one (the file name) a
\* tuple itself; the empty string is the empty tuple.
base_name(path) == IF path = <<>> THEN <<>> ELSE path[Len(path)]

EmptyHeader(address, installName) ==
    [ textBase              |-> address,
      installName           |-> installName,
      identifierPrefix      |-> base_name(installName),
      segments              |-> <<>>,
      linkeditPresent       |-> FALSE,
      linkeditSegment       |-> [ segname |-> "", vmaddr |-> 0, vmsize |-> 0,
                                  filesize |-> 0, initprot |-> {}, maxprot |-> {} ],
      symtabSymoff          |-> 0,
      exportTriePresent     |-> FALSE,
      functionStartsPresent |-> FALSE,
      routinesPresent       |-> FALSE,
      routines64            |-> 0,
      exportTriePath        |-> <<>> ]

SegmentOf(c) ==
    [ segname |-> c.segname, vmaddr |-> c.vmaddr, vmsize |-> c.vmsize,
      filesize |-> c.filesize, initprot |-> c.initprot, maxprot |-> c.maxprot ]

\* strncmp(segment64.segname, "__LINKEDIT", 10) == 0: the first ten
\* characters of the name are compared
SegnameIsLinkedit(segname) ==
    Len(segname) >= 10 /\ SubSeq(segname, 1, 10) = "__LINKEDIT"

\* One iteration of the load-command loop; None is the early "return {}"
\* and the ReadException of LC_FILESET_ENTRY caught at the end.
ApplyLoadCommand(header, c) ==
    IF ~c.cmdsizeOk THEN None
    ELSE CASE c.cmd = "LC_SEGMENT" ->
                Some([header EXCEPT !.segments = Append(@, SegmentOf(c))])
           [] c.cmd = "LC_SEGMENT_64" ->
                LET h1 == IF SegnameIsLinkedit(c.segname)
                          THEN [header EXCEPT !.linkeditSegment = SegmentOf(c),
                                              !.linkeditPresent = TRUE]
                          ELSE header
                IN Some([h1 EXCEPT !.segments = Append(@, SegmentOf(c))])
           [] c.cmd = "LC_ROUTINES_64" ->
                Some([header EXCEPT !.routines64 = c.value, !.routinesPresent = TRUE])
           [] c.cmd = "LC_FUNCTION_STARTS" ->
                Some([header EXCEPT !.functionStartsPresent = TRUE])
           [] c.cmd = "LC_SYMTAB" ->
                Some([header EXCEPT !.symtabSymoff = c.value])
           [] c.cmd = "LC_DYLD_EXPORTS_TRIE" ->
                Some([header EXCEPT !.exportTriePresent = TRUE])
           [] c.cmd = "LC_FILESET_ENTRY" -> None
           [] OTHER -> Some(header)

\* What a call of LoadHeaderForAddress ends with: a return of an optional
\* header, or the MappingReadException of a read outside the mapped ranges.
HeaderReturned(header) == [ outcome |-> "returned", header |-> header ]
HeaderRaised == [ outcome |-> "MappingReadException", header |-> None ]

\* The loop over the ncmds load commands, from command i on.  The commands
\* after the first mappedCmds lie outside the mapped ranges: the read of
\* such a command raises MappingReadException, which the
\* catch (ReadException&) after the loop does not catch.
RECURSIVE ParseLoadCommands(_, _, _)
ParseLoadCommands(header, macho, i) ==
    IF i > Len(macho.cmds) THEN HeaderReturned(Some(header))
    ELSE IF i > macho.mappedCmds THEN HeaderRaised
    ELSE LET r == ApplyLoadCommand(header, macho.cmds[i])
         IN  IF ~IsSome(r) THEN HeaderReturned(None)
             ELSE ParseLoadCommands(Get(r), macho, i + 1)

\* machos: the Mach-O images of the cache, by address (what the VM reads
\* there); at an address that is not mapped the read of the magic raises,
\* outside every try block
LoadHeaderForAddress(machos, address, installName) ==
    IF address \notin DOMAIN machos THEN HeaderRaised
    ELSE IF ~machos[address].magicOk THEN HeaderReturned(None)
    ELSE ParseLoadCommands(EmptyHeader(address, installName), machos[address], 1)

(***************************************************************************)
(* Memory regions and the segment flags derived from Mach-O protections.   *)
(***************************************************************************)
SegmentFlagsFromMachOProtections(initProt, maxProt) ==
    (IF "R" \in initProt THEN {"SegmentReadable"} ELSE {})
    \cup (IF "W" \in initProt THEN {"SegmentWritable"} ELSE {})
    \cup (IF "X" \in initProt THEN {"SegmentExecutable"} ELSE {})
    \cup (IF "W" \notin initProt /\ "W" \notin maxProt THEN {"SegmentDenyWrite"} ELSE {})
    \cup (IF "X" \notin initProt /\ "X" \notin maxProt THEN {"SegmentDenyExecute"} ELSE {})

\* struct MemoryRegion with its default member initialisers
MemoryRegion(prettyName, start, size, flags) ==
    [ prettyName |-> prettyName, start |-> start, size |-> size,
      loaded |-> FALSE, rawViewOffsetIfLoaded |-> 0,
      headerInitialized |-> FALSE, flags |-> flags ]

\* region.prettyName.find("__LINKEDIT") != npos; a pretty name is the pair
\* <<identifier prefix or file name, <<segment name or suffix>> >>
NameContainsLinkedit(prettyName) == prettyName[2] = <<"__LINKEDIT">>

\* struct State, value-initialised by make_shared<State>()
EmptyState ==
    [ viewState |-> "Unloaded",
      cacheFormat |-> "Regular",
      baseFilePath |-> <<>>,
      imageStarts |-> <<>>,
      headers |-> <<>>,
      images |-> <<>>,
      regionsMappedIntoMemory |-> <<>>,
      backingCaches |-> <<>>,
      stubIslandRegions |-> <<>>,
      dyldDataRegions |-> <<>>,
      nonImageRegions |-> <<>>,
      exportInfos |-> <<>>,
      symbolInfos |-> <<>>,
      objcOptimizationDataRange |-> None ]

\* Maps (imageStarts, headers, exportInfos, symbolInfos) are sequences of
\* <<key, value>> pairs with unique keys.
MapHas(m, k) == \E i \in DOMAIN m : m[i][1] = k
MapGet(m, k) == m[CHOOSE i \in DOMAIN m : m[i][1] = k][2]
MapPut(m, k, v) ==
    IF MapHas(m, k)
    THEN [i \in DOMAIN m |-> IF m[i][1] = k THEN <<k, v>> ELSE m[i]]
    ELSE Append(m, <<k, v>>)

(***************************************************************************)
(* PerformInitialLoad: backing caches, stub islands and dyld-data regions  *)
(* per cache format.  A cache on disk d is:                                *)
(*   d.raw            bytes of the primary header                          *)
(*   d.exists01       whether the ".01" sibling exists                     *)
(*   d.symbolsExists  whether the ".symbols" sibling exists                *)
(*   d.mappings       mapping table of the primary file                    *)
(*   d.subs           sub-cache files: ext (entry extension), mappings,    *)
(*                    hasImages (any of the image counts is non-zero)      *)
(*   d.symbolsMappings mapping table of the ".symbols" file                *)
(*   d.imageInfos     <<install name, address>> of the image table         *)
(*   d.machos         Mach-O images by address                             *)
(* The file name of a cache file is <<"cache", kind, i, sub>>: kind "" for *)
(* the primary, "num" for path + "." + i, "ext" for path + the extension   *)
(* <<i, sub>> of a sub-cache entry, "symbols" for path + ".symbols".       *)
(***************************************************************************)
FilePath(kind, i, sub) == <<"dir", <<"cache", kind, i, sub>> >>

PrimaryPath == FilePath("", 0, "")

BackingCache(isPrimary, path, mappings) ==
    [ isPrimary |-> isPrimary, path |-> path, mappings |-> mappings ]

\* subCachePath.find(".dylddata") != npos
PathIsDyldData(path) == base_name(path)[4] = "dylddata"

StubIslandOf(path, sub) ==
    IF Len(sub.mappings) = 1 /\ ~sub.hasImages
    THEN << MemoryRegion(<<base_name(path), <<"_stubs">> >>, sub.mappings[1].address,
                         sub.mappings[1].size,
                         {"SegmentReadable", "SegmentExecutable"}) >>
    ELSE <<>>

DyldDataOf(path, sub) ==
    IF PathIsDyldData(path)
    THEN [ j \in DOMAIN sub.mappings |->
             MemoryRegion(<<base_name(path), <<"_data", j - 1>> >>, sub.mappings[j].address,
                          sub.mappings[j].size, {"SegmentReadable"}) ]
    ELSE <<>>

\* the sub-cache files the loop of a format opens, in order, with their paths
SubCachePaths(fmt, h, d) ==
    CASE fmt = "Split" -> [ i \in 1 .. h.subCacheArrayCount |-> FilePath("num", i, "") ]
      [] fmt \in {"Large", "iOS16"} ->
           [ i \in 1 .. h.subCacheArrayCount |->
               FilePath("ext", d.subs[i].ext[1], d.subs[i].ext[2]) ]
      [] OTHER -> <<>>

\* image table: imagesCountOld entries for Regular, imagesCount otherwise
ImageStartsOf(fmt, h, d) ==
    LET n == IF fmt = "Regular" THEN h.imagesCountOld ELSE h.imagesCount
    IN SubSeq(d.imageInfos, 1, n)

\* MMappedFileAccessor::Open(...)->lock() of the ".symbols" sibling
OpenSymbolsFile(d) == IF d.symbolsExists THEN "opened" ELSE "MissingFile"

\* The switch on cacheFormat.  outcome "threw": an exception left the function.
LoadBackingCaches(fmt, h, d) ==
    LET paths   == SubCachePaths(fmt, h, d)
        primary == BackingCache(TRUE, PrimaryPath, d.mappings)
        subs    == [ i \in DOMAIN paths |->
                       BackingCache(FALSE, paths[i], d.subs[i].mappings) ]
        stubs   == Flatten([ i \in DOMAIN paths |-> StubIslandOf(paths[i], d.subs[i]) ])
        data    == IF fmt = "iOS16"
                   THEN Flatten([ i \in DOMAIN paths |-> DyldDataOf(paths[i], d.subs[i]) ])
                   ELSE <<>>
        opened  == OpenSymbolsFile(d) = "opened"
        \* Split: no isPrimary / path assigned (default-constructed BackingCache)
        symSplit == BackingCache(FALSE, <<>>, d.symbolsMappings)
        symIOS16 == BackingCache(FALSE, FilePath("symbols", 0, ""), d.symbolsMappings)
    IN [ outcome |-> IF fmt = "Split" /\ ~opened THEN "threw" ELSE "ok",
         backingCaches |->
             CASE fmt = "Split" /\ opened -> <<primary>> \o subs \o <<symSplit>>
               [] fmt = "iOS16" /\ opened -> <<primary>> \o subs \o <<symIOS16>>
               [] OTHER                   -> <<primary>> \o subs,
         stubIslandRegions |-> stubs,
         dyldDataRegions |-> data ]

(***************************************************************************)
(* PerformInitialLoad: image headers, non-image regions, region splitting. *)
(***************************************************************************)
\* vm->MappingAtAddress(addr).first.fileAccessor->filePath(); the empty
\* path when vm->AddressIsMapped(addr) is false
MappingPathAt(backingCaches, addr) ==
    LET all  == UNION { { <<i, j>> : j \in DOMAIN backingCaches[i].mappings } :
                        i \in DOMAIN backingCaches }
        hits == { p \in all :
                    /\ backingCaches[p[1]].mappings[p[2]].address <= addr
                    /\ addr < backingCaches[p[1]].mappings[p[2]].address
                              + backingCaches[p[1]].mappings[p[2]].size }
    IN IF hits = {} THEN <<>>
       ELSE backingCaches[(CHOOSE p \in hits : TRUE)[1]].path

ImageOf(installName, address, header) ==
    [ installName |-> installName,
      headerLocation |-> address,
      regions |-> [ k \in DOMAIN header.segments |->
                      MemoryRegion(<<header.identifierPrefix, <<header.segments[k].segname>> >>,
                                   header.segments[k].vmaddr,
                                   header.segments[k].vmsize,
                                   SegmentFlagsFromMachOProtections(
                                       header.segments[k].initprot,
                                       header.segments[k].maxprot)) ] ]

\* The loop over imageStarts: fills headers and images of the state st.
\* MappingReadException derives from VMException privately (VM.h), so the
\* handler catch (std::exception&) of the loop body does not match it:
\* outcome "threw", the exception leaves the loop with the images so far.
RECURSIVE LoadImageHeaders(_, _, _)
LoadImageHeaders(st, starts, machos) ==
    IF starts = <<>> THEN [outcome |-> "ok", state |-> st]
    ELSE LET name   == Head(starts)[1]
             addr   == Head(starts)[2]
             loaded == LoadHeaderForAddress(machos, addr, name)
             parsed == Get(loaded.header)
             header == IF parsed.linkeditPresent
                          /\ MappingPathAt(st.backingCaches, parsed.linkeditSegment.vmaddr) # <<>>
                       THEN [parsed EXCEPT !.exportTriePath =
                                MappingPathAt(st.backingCaches, parsed.linkeditSegment.vmaddr)]
                       ELSE parsed
             st1    == IF ~IsSome(loaded.header) THEN st
                       ELSE [st EXCEPT !.headers = MapPut(@, addr, header),
                                       !.images = Append(@, ImageOf(name, addr, header))]
         IN IF loaded.outcome = "MappingReadException"
            THEN [outcome |-> "threw", state |-> st]
            ELSE LoadImageHeaders(st1, Tail(starts), machos)

\* one MemoryRegion per mapping of every backing cache
NonImageRegionsOf(backingCaches) ==
    Flatten([ i \in DOMAIN backingCaches |->
                [ j \in DOMAIN backingCaches[i].mappings |->
                    MemoryRegion(<<base_name(backingCaches[i].path), <<j - 1>> >>,
                                 backingCaches[i].mappings[j].address,
                                 backingCaches[i].mappings[j].size,
                                 SegmentFlagsFromMachOProtections(
                                     backingCaches[i].mappings[j].initProt,
                                     backingCaches[i].mappings[j].maxProt)) ] ])

\* the overlap test of the splitting loops
SegmentOverlapsRegion(segment, region) ==
    /\ segment.vmaddr < region.start + region.size
    /\ segment.vmaddr + segment.vmsize > region.start

\* a splitting that starts the part after the overlap at the segment's start
SplitRegion_AfterPartFromSegmentStart(region, segment) ==
    IF SegmentOverlapsRegion(segment, region)
    THEN (IF region.start < segment.vmaddr
          THEN << [region EXCEPT !.size = segment.vmaddr - region.start] >>
          ELSE <<>>)
         \o
         (IF region.start + region.size > segment.vmaddr + segment.vmsize
          THEN << [region EXCEPT !.start = segment.vmaddr,
                                 !.size = (region.start + region.size) - segment.vmaddr] >>
          ELSE <<>>)
    ELSE << region >>

\* what one region becomes when it meets one segment: itself, or the part
\* before and the part after the segment (each only if non-empty)
SplitRegion(region, segment) ==
    IF SegmentOverlapsRegion(segment, region)
    THEN (IF region.start < segment.vmaddr
          THEN << [region EXCEPT !.size = segment.vmaddr - region.start] >>
          ELSE <<>>)
         \o
         (IF region.start + region.size > segment.vmaddr + segment.vmsize
          THEN << [region EXCEPT !.start = segment.vmaddr + segment.vmsize,
                                 !.size = (region.start + region.size)
                                          - (segment.vmaddr + segment.vmsize)] >>
          ELSE <<>>)
    ELSE << region >>

\* the inner loop: every region of the list against one segment
SplitRegionsBySegment(regions, segment) ==
    Flatten([ i \in DOMAIN regions |-> SplitRegion(regions[i], segment) ])

RECURSIVE SplitRegionsBySegments(_, _)
SplitRegionsBySegments(regions, segments) ==
    IF segments = <<>> THEN regions
    ELSE SplitRegionsBySegments(SplitRegionsBySegment(regions, Head(segments)),
                                Tail(segments))

\* every segment of every header, in the order the two outer loops visit them
AllHeaderSegments(headers) ==
    Flatten([ i \in DOMAIN headers |-> headers[i][2].segments ])

SplitAgainstHeaders(regions, headers) ==
    SplitRegionsBySegments(regions, AllHeaderSegments(headers))

\* imageStarts[iname] = img.address for every entry of the image table
RECURSIVE PutImageStarts(_, _)
PutImageStarts(m, infos) ==
    IF infos = <<>> THEN m
    ELSE PutImageStarts(MapPut(m, Head(infos)[1], Head(infos)[2]), Tail(infos))

\* The whole of PerformInitialLoad on the mutable state st0 (what
\* WillMutateState left in m_state), up to but excluding SaveToDSCView.
\* outcome "threw": the exception of a missing ".symbols" file left the
\* function in the Split case, after the sub-caches were pushed, or the
\* MappingReadException of an image header left the loop over imageStarts.
\* progress: the last value the function stored in the load progress of the
\* view (Finished is stored after the save that follows the function body
\* modelled here).
PerformInitialLoad(st0, d) ==
    LET h   == ReadPrimaryHeader(d.raw)
        fmt == InitialLoadCacheFormat(h, d.exists01)
        bc  == LoadBackingCaches(fmt, h, d)
        st1 == [st0 EXCEPT
                  !.baseFilePath = PrimaryPath,
                  !.cacheFormat = fmt,
                  !.objcOptimizationDataRange =
                      IF h.objcOptsOffset # 0 /\ h.objcOptsSize # 0
                      THEN Some(<<h.objcOptsOffset, h.objcOptsSize>>) ELSE @,
                  !.backingCaches = @ \o bc.backingCaches,
                  !.imageStarts = PutImageStarts(@, ImageStartsOf(fmt, h, d)),
                  !.stubIslandRegions = @ \o bc.stubIslandRegions,
                  !.dyldDataRegions = @ \o bc.dyldDataRegions]
        ih  == LoadImageHeaders(st1, st1.imageStarts, d.machos)
        st2 == ih.state
        st3 == [st2 EXCEPT !.nonImageRegions = @ \o NonImageRegionsOf(st2.backingCaches)]
        st4 == [st3 EXCEPT
                  !.dyldDataRegions = SplitAgainstHeaders(@, st3.headers),
                  !.nonImageRegions = SplitAgainstHeaders(@, st3.headers)]
    IN IF bc.outcome = "threw"
       THEN [outcome |-> "threw", state |-> st1, progress |-> "LoadingCaches"]
       ELSE IF ih.outcome = "threw"
       THEN [outcome |-> "threw", state |-> st2, progress |-> "LoadingImages"]
       ELSE [outcome |-> "ok", state |-> st4, progress |-> "Finished"]

\* FastGetBackingCacheCount: the (format, returned count) pairs the call can
\* produce on the cache d
FastGetBackingCacheCount(d) ==
    LET h == ReadPrimaryHeader(d.raw)
    IN UNION { { [format |-> fmt, count |-> n] : n \in FastCountsForFormat(fmt, h) } :
               fmt \in FastCacheFormats(h, d.exists01) }

(***************************************************************************)
(* SpecCTP / SpecSplit: the topology parser on bounded cache files.        *)
(***************************************************************************)
Mapping(address, size) ==
    [ address |-> address, size |-> size, fileOffset |-> 0,
      initProt |-> {"R"}, maxProt |-> {"R"} ]

SegmentCommand(cmd, segname, vmaddr, vmsize) ==
    [ cmd |-> cmd, cmdsizeOk |-> TRUE, segname |-> segname, vmaddr |-> vmaddr,
      vmsize |-> vmsize, filesize |-> vmsize, initprot |-> {"R", "X"},
      maxprot |-> {"R", "X"}, value |-> 0 ]

OtherCommand(cmd, value) ==
    [ cmd |-> cmd, cmdsizeOk |-> TRUE, segname |-> "", vmaddr |-> 0, vmsize |-> 0,
      filesize |-> 0, initprot |-> {}, maxprot |-> {}, value |-> value ]

MachO(cmds) == [ magicOk |-> TRUE, cmds |-> cmds, mappedCmds |-> Len(cmds) ]

HeaderSizes ==
    { OffImagesCountOldEnd, OffSubCacheArrayOffset, OffSubCacheArrayCountEnd, OffObjcOptsEnd }

\* the i-th sub-cache file: the first is a ".dylddata" file, the second a
\* stub island (single mapping, no images), the others carry images
SubCacheFile(i) ==
    [ ext |-> <<i, IF i = 1 THEN "dylddata" ELSE "">>,
      mappings |-> << Mapping(MaxAddr + MaxSegSize + 2 * i, 2) >>,
      hasImages |-> (i > 2) ]

LibA == <<"usr", "lib", <<"libA.dylib">> >>

\* caches for format detection and counting: every combination of header
\* length, imagesCountOld, cacheType, sub-cache count, ".01" and ".symbols"
CTPDisks ==
    { [ raw |-> [ mappingOffset |-> mo, imagesCountOld |-> ico, cacheType |-> ct,
                  subCacheArrayCount |-> n, imagesCount |-> 1,
                  objcOptsOffset |-> 1, objcOptsSize |-> 1 ],
        exists01 |-> e01,
        symbolsExists |-> sym,
        mappings |-> << Mapping(0, MaxAddr + MaxSegSize) >>,
        subs |-> [ i \in 1 .. n |-> SubCacheFile(i) ],
        symbolsMappings |-> << Mapping(MaxAddr + MaxSegSize, 1) >>,
        imageInfos |-> << <<LibA, 1>> >>,
        machos |-> (1 :> MachO(<< SegmentCommand("LC_SEGMENT_64", "__TEXT", 1, 1),
                                  SegmentCommand("LC_SEGMENT_64", "__LINKEDIT", 3, 1) >>)) ]
      : mo \in HeaderSizes, ico \in {0, 1}, ct \in {1, 2},
        n \in 0 .. MaxSubCaches, e01 \in BOOLEAN, sym \in BOOLEAN }

\* every sequence of at most MaxSegs segments over the bounded address range
SegmentChoices ==
    { SegmentCommand("LC_SEGMENT_64", "__DATA", a, s) :
        a \in 0 .. MaxAddr, s \in 0 .. MaxSegSize }

SegmentLists == UNION { [ 1 .. k -> SegmentChoices ] : k \in 0 .. MaxSegs }

\* iOS16 caches for region splitting: one image with every arrangement of
\* segments, a primary mapping over the whole range and a ".dylddata"
\* mapping at every start.  Addresses stay far below 2^64: no end wraps.
SplitDisks ==
    { [ raw |-> [ mappingOffset |-> OffObjcOptsEnd, imagesCountOld |-> 0, cacheType |-> 2,
                  subCacheArrayCount |-> 1, imagesCount |-> 1,
                  objcOptsOffset |-> 0, objcOptsSize |-> 0 ],
        exists01 |-> FALSE,
        symbolsExists |-> FALSE,
        mappings |-> << Mapping(0, MaxAddr + MaxSegSize) >>,
        subs |-> << [ ext |-> <<1, "dylddata">>,
                      mappings |-> << Mapping(ds, 2) >>, hasImages |-> TRUE ] >>,
        symbolsMappings |-> <<>>,
        imageInfos |-> << <<LibA, 0>> >>,
        machos |-> (0 :> MachO(segs)) ]
      : ds \in 0 .. MaxAddr, segs \in SegmentLists }

CtpStart(d) == [ disk |-> d, fast |-> None, load |-> None ]

InitCTP ==
    /\ ctp \in { CtpStart(d) : d \in CTPDisks }
    /\ sr = NoValue /\ heap = NoValue /\ ctl = NoValue
    /\ vs = NoValue /\ view = NoValue /\ hist = NoValue
    /\ trie = NoValue /\ sem = NoValue /\ hdr = NoValue

InitSplit ==
    /\ ctp \in { CtpStart(d) : d \in SplitDisks }
    /\ sr = NoValue /\ heap = NoValue /\ ctl = NoValue
    /\ vs = NoValue /\ view = NoValue /\ hist = NoValue
    /\ trie = NoValue /\ sem = NoValue /\ hdr = NoValue

\* fast_get_backing_cache_count on the primary file
CtpFastCount ==
    /\ ~IsSome(ctp.fast)
    /\ \E r \in FastGetBackingCacheCount(ctp.disk) : ctp' = [ctp EXCEPT !.fast = Some(r)]
    /\ UNCHANGED <<sr, heap, ctl, vs, view, hist, trie, sem, hdr>>

\* initial load of a fresh controller on the same files
CtpInitialLoad ==
    /\ ~IsSome(ctp.load)
    /\ ctp' = [ctp EXCEPT !.load = Some(PerformInitialLoad(EmptyState, ctp.disk))]
    /\ UNCHANGED <<sr, heap, ctl, vs, view, hist, trie, sem, hdr>>

NextCTP == CtpFastCount \/ CtpInitialLoad

SpecCTP == InitCTP /\ [][NextCTP]_vars

SpecSplit == InitSplit /\ [][NextCTP]_vars

(***************************************************************************)
(* Claims on the topology parser.                                          *)
(***************************************************************************)
Max(a, b) == IF a > b THEN a ELSE b

\* the address ranges [start, start + size) and [vmaddr, vmaddr + vmsize) meet
RangesIntersect(region, segment) ==
    Max(region.start, segment.vmaddr)
        < Min(region.start + region.size, segment.vmaddr + segment.vmsize)

LoadedOk == IsSome(ctp.load) /\ Get(ctp.load).outcome = "ok"

\* C8: after initial load no dyld-data region and no non-image region shares
\* an address with any segment of any parsed image header, whatever the
\* number and arrangement of the segments over the original mappings.
C8_RegionsDisjointFromSegments ==
    LoadedOk =>
        \A r \in Range(Get(ctp.load).state.dyldDataRegions)
                 \cup Range(Get(ctp.load).state.nonImageRegions) :
            \A s \in Range(AllHeaderSegments(Get(ctp.load).state.headers)) :
                ~RangesIntersect(r, s)

\* C8 witness: two segments were cut out of the primary mapping, leaving
\* three fragments of it, and the dyld-data mapping lost a part as well.
C8_Witness ==
    /\ LoadedOk
    /\ Len(AllHeaderSegments(Get(ctp.load).state.headers)) = 2
    /\ Cardinality({ i \in DOMAIN Get(ctp.load).state.nonImageRegions :
                       Get(ctp.load).state.nonImageRegions[i].prettyName
                           = <<base_name(PrimaryPath), <<0>> >> }) = 3
    /\ \E r \in Range(Get(ctp.load).state.dyldDataRegions) : r.size = 1

\* the format named by the classification table for the files of a cache
TableFormat(d) ==
    IF d.raw.mappingOffset > OffSubCacheArrayOffset
    THEN IF d.raw.cacheType = 2 THEN "iOS16"
         ELSE IF d.exists01 THEN "Large" ELSE "Split"
    ELSE "Regular"

\* the fast count took a format the code assigned (no indeterminate read)
FastFormatAssigned ==
    HeaderLongEnough(ReadPrimaryHeader(ctp.disk.raw))
        \/ ReadPrimaryHeader(ctp.disk.raw).imagesCountOld # 0

\* C9: fast_get_backing_cache_count returns the size of the backing_caches
\* that initial load builds on the same files, for every format and with or
\* without a .symbols file.  Stated for the runs in which the fast count's
\* format was assigned and initial load returned.
C9_FastCountEqualsBackingCaches ==
    (IsSome(ctp.fast) /\ LoadedOk /\ FastFormatAssigned) =>
        Get(ctp.fast).count = Len(Get(ctp.load).state.backingCaches)

\* C9 witness: the Split cache with two sub-caches and a .symbols file gives
\* four from both.
C9_Witness ==
    /\ IsSome(ctp.fast) /\ LoadedOk
    /\ Get(ctp.load).state.cacheFormat = "Split"
    /\ ctp.disk.raw.subCacheArrayCount = 2
    /\ Get(ctp.fast).count = 4
    /\ Len(Get(ctp.load).state.backingCaches) = 4

\* C10: both initial load and fast_get_backing_cache_count classify the
\* cache as the table says, for every combination of header length,
\* cache_type and ".01" sibling.
C10_ClassificationFollowsTable ==
    /\ IsSome(ctp.load) => Get(ctp.load).state.cacheFormat = TableFormat(ctp.disk)
    /\ IsSome(ctp.fast) => Get(ctp.fast).format = TableFormat(ctp.disk)

\* C10 witness: both ran on a header too short for the sub-cache array.
C10_Witness ==
    /\ IsSome(ctp.load) /\ IsSome(ctp.fast)
    /\ ~HeaderLongEnough(ReadPrimaryHeader(ctp.disk.raw))
    /\ ctp.disk.raw.cacheType = 2
    /\ Get(ctp.load).state.cacheFormat = "Regular"

(***************************************************************************)
(* Slide rewriting: ParseAndApplySlideInfoForFile on one file accessor.    *)
(* The mapped file is a row of pointer-sized words at locations            *)
(* 0 .. MaxLoc, each WordBits wide (the 64 bits scaled down): the top bit  *)
(* is the "authenticated" bit, the next one the offset to the next         *)
(* pointer, the remaining bits the payload.  A read outside the file       *)
(* raises MappingReadException.  The slide-info structures of the file     *)
(* are given as records: f.headerOk (the header can be read), f.legacy     *)
(* (slideInfoOffsetUnused # 0) with f.legacyInfo, f.entries (the           *)
(* mapping_and_slide table).  An info record: offsetNonZero, sizeNonZero,  *)
(* readable (version word and structure lie inside the file), version,     *)
(* valueAdd (value_add / auth_value_add stored in the structure),          *)
(* pageStarts (per page: NoRebase or the first pointer's offset),          *)
(* fileOffset and pageSize.  Page-start entries with the EXTRA attribute   *)
(* are outside the modelled inputs.                                        *)
(***************************************************************************)
RECURSIVE Pow2(_)
Pow2(n) == IF n = 0 THEN 1 ELSE 2 * Pow2(n - 1)

WordMod == Pow2(WordBits)

MakeWord(auth, next, payload) ==
    auth * Pow2(WordBits - 1) + next * Pow2(WordBits - 2) + payload

WordAuth(w) == w \div Pow2(WordBits - 1)
WordNext(w) == (w \div Pow2(WordBits - 2)) % 2
WordPayload(w) == w % Pow2(WordBits - 2)

\* DYLD_CACHE_SLIDE_PAGE_ATTR_NO_REBASE and its v3 / v5 counterparts
NoRebase == -1

\* a rewriter that does not consult the flag on entry
SlideAlreadyApplied_Never(flag) == FALSE

\* file->SlideInfoWasApplied() at the top of the function
SlideAlreadyApplied(flag) == flag

\* base: the address of the first mapping of the first backing cache whose
\* first mapping lies below the running minimum (the inner loop breaks
\* after the first hit or looks at all mappings of a cache otherwise)
RECURSIVE FirstBelow(_, _)
FirstBelow(mappings, base) ==
    IF mappings = <<>> THEN base
    ELSE IF Head(mappings).address < base THEN Head(mappings).address
    ELSE FirstBelow(Tail(mappings), base)

RECURSIVE SlideBase(_, _)
SlideBase(backingCaches, base) ==
    IF backingCaches = <<>> THEN base
    ELSE SlideBase(Tail(backingCaches), FirstBelow(Head(backingCaches).mappings, base))

\* v2 rebaseChain: rewrites of one chain starting at loc
RECURSIVE RebaseChainV2(_, _, _, _)
RebaseChainV2(bytes, valueAdd, loc, acc) ==
    IF loc \notin DOMAIN bytes THEN acc
    ELSE LET rawValue == bytes[loc]
             delta    == rawValue \div Pow2(WordBits - 2)
             value    == rawValue % Pow2(WordBits - 2)
             slid     == IF value # 0 THEN (value + valueAdd) % WordMod ELSE 0
             acc1     == Append(acc, <<loc, slid>>)
         IN IF delta = 0 THEN acc1
            ELSE RebaseChainV2(bytes, valueAdd, loc + delta, acc1)

\* v3 plain pointer: the top half of the pointer value moves to the top of
\* the word, the bottom half stays
PlainValueV3(payload) ==
    (payload \div Pow2(WordBits - 3)) * Pow2(WordBits - 1)
        + (payload % Pow2(WordBits - 3))

\* v3 chain: do { loc += delta; read; rewrite } while (delta != 0)
RECURSIVE RebaseChainV3(_, _, _, _, _)
RebaseChainV3(bytes, authValueAdd, loc, delta, acc) ==
    LET loc1 == loc + delta
    IN IF loc1 \notin DOMAIN bytes THEN acc
       ELSE LET w     == bytes[loc1]
                value == IF WordAuth(w) = 1
                         THEN (WordPayload(w) + authValueAdd) % WordMod
                         ELSE PlainValueV3(WordPayload(w))
                acc1  == Append(acc, <<loc1, value>>)
            IN IF WordNext(w) = 0 THEN acc1
               ELSE RebaseChainV3(bytes, authValueAdd, loc1, WordNext(w), acc1)

\* v5 chain: both kinds of pointer become value_add + runtimeOffset
RECURSIVE RebaseChainV5(_, _, _, _, _)
RebaseChainV5(bytes, valueAdd, loc, delta, acc) ==
    LET loc1 == loc + delta
    IN IF loc1 \notin DOMAIN bytes THEN acc
       ELSE LET w    == bytes[loc1]
                acc1 == Append(acc, <<loc1, (valueAdd + WordPayload(w)) % WordMod>>)
            IN IF WordNext(w) = 0 THEN acc1
               ELSE RebaseChainV5(bytes, valueAdd, loc1, WordNext(w), acc1)

\* one record of slide info that passed the version checks
SlideMapping(info, valueAdd) ==
    [ version |-> info.version, valueAdd |-> valueAdd,
      pageStarts |-> info.pageStarts, fileOffset |-> info.fileOffset,
      pageSize |-> info.pageSize ]

\* the legacy way: one record at slideInfoOffsetUnused; a version other than
\* 2 or 3 ends the process
CollectLegacyMapping(info) ==
    IF ~info.readable THEN [outcome |-> "threw", mappings |-> <<>>]
    ELSE IF info.version # 2 /\ info.version # 3
         THEN [outcome |-> "aborted", mappings |-> <<>>]
         ELSE [outcome |-> "ok", mappings |-> << SlideMapping(info, info.valueAdd) >>]

\* the modern way: the loop over the mapping_and_slide entries
RECURSIVE CollectModernMappings(_, _, _)
CollectModernMappings(entries, base, acc) ==
    IF entries = <<>> THEN [outcome |-> "ok", mappings |-> acc]
    ELSE LET e == Head(entries)
         IN IF ~e.offsetNonZero \/ ~e.sizeNonZero
            THEN CollectModernMappings(Tail(entries), base, acc)
            ELSE IF ~e.readable THEN [outcome |-> "threw", mappings |-> <<>>]
            ELSE IF e.version = 2
                 THEN CollectModernMappings(Tail(entries), base,
                                            Append(acc, SlideMapping(e, e.valueAdd)))
            ELSE IF e.version = 3 \/ e.version = 5
                 THEN CollectModernMappings(Tail(entries), base,
                                            Append(acc, SlideMapping(e, base)))
            ELSE CollectModernMappings(Tail(entries), base, acc)

\* the rewrites of the pages i .. of one mapping (pages are counted from 0)
RECURSIVE WalkPages(_, _, _, _)
WalkPages(bytes, m, i, acc) ==
    IF i >= Len(m.pageStarts) THEN acc
    ELSE LET start == m.pageStarts[i + 1]
             page  == m.fileOffset + m.pageSize * i
             acc1  == IF start = NoRebase THEN acc
                      ELSE CASE m.version = 2 ->
                                  RebaseChainV2(bytes, m.valueAdd, page + start, acc)
                             [] m.version = 3 ->
                                  RebaseChainV3(bytes, m.valueAdd, page, start, acc)
                             [] OTHER ->
                                  RebaseChainV5(bytes, m.valueAdd, page, start, acc)
         IN WalkPages(bytes, m, i + 1, acc1)

RECURSIVE WalkMappings(_, _, _)
WalkMappings(bytes, mappings, acc) ==
    IF mappings = <<>> THEN acc
    ELSE WalkMappings(bytes, Tail(mappings), WalkPages(bytes, Head(mappings), 0, acc))

\* file->WritePointer(loc, value) for every collected rewrite, in order
RECURSIVE ApplyRewrites(_, _)
ApplyRewrites(bytes, rewrites) ==
    IF rewrites = <<>> THEN bytes
    ELSE ApplyRewrites([bytes EXCEPT ![Head(rewrites)[1]] = Head(rewrites)[2]],
                       Tail(rewrites))

SlideResult(outcome, writes, bytes, flag) ==
    [ outcome |-> outcome, writes |-> writes, bytes |-> bytes, slideApplied |-> flag ]

\* One call on the accessor (f, bytes, flag).  outcome: "returned", "threw"
\* (a read outside the file in the structural part) or "aborted".
ParseAndApplySlideInfoForFile(f, bytes, flag, base) ==
    IF SlideAlreadyApplied(flag) THEN SlideResult("returned", <<>>, bytes, flag)
    ELSE IF ~f.headerOk THEN SlideResult("threw", <<>>, bytes, flag)
    ELSE LET c == IF f.legacy THEN CollectLegacyMapping(f.legacyInfo)
                  ELSE CollectModernMappings(f.entries, base, <<>>)
             rewrites == WalkMappings(bytes, c.mappings, <<>>)
         IN CASE c.outcome # "ok" -> SlideResult(c.outcome, <<>>, bytes, flag)
              [] c.outcome = "ok" /\ c.mappings = <<>> ->
                   SlideResult("returned", <<>>, bytes, TRUE)
              [] OTHER ->
                   SlideResult("returned", rewrites, ApplyRewrites(bytes, rewrites), TRUE)

(***************************************************************************)
(* SpecSlide: runs of the rewriter on one accessor.                        *)
(***************************************************************************)
SlideVersions == {2, 3, 4, 5}

SlideInfo(o, z, r, v, ps) ==
    [ offsetNonZero |-> o, sizeNonZero |-> z, readable |-> r, version |-> v,
      valueAdd |-> 1, pageStarts |-> <<ps>>, fileOffset |-> 0, pageSize |-> MaxLoc + 1 ]

\* the v3 records come with an auth_value_add equal to the base of the
\* cache and with another one
FullInfos ==
    { SlideInfo(TRUE, TRUE, r, v, ps) :
        r \in BOOLEAN, v \in SlideVersions, ps \in {NoRebase, 0, 1} }
    \cup
    { [SlideInfo(TRUE, TRUE, r, 3, ps) EXCEPT !.valueAdd = 2] :
        r \in BOOLEAN, ps \in {NoRebase, 0, 1} }

SkippedInfos == { SlideInfo(FALSE, TRUE, TRUE, 2, 0), SlideInfo(TRUE, FALSE, TRUE, 2, 0) }

SlideFiles ==
    { [ headerOk |-> TRUE, legacy |-> FALSE, legacyInfo |-> SlideInfo(FALSE, FALSE, FALSE, 2, 0),
        entries |-> es ] :
        es \in UNION { [ 1 .. k -> FullInfos \cup SkippedInfos ] : k \in 0 .. 2 } }
    \cup
    { [ headerOk |-> TRUE, legacy |-> TRUE, legacyInfo |-> i, entries |-> <<>> ] :
        i \in FullInfos }
    \cup
    { [ headerOk |-> FALSE, legacy |-> FALSE, legacyInfo |-> SlideInfo(FALSE, FALSE, FALSE, 2, 0),
        entries |-> <<>> ] }

\* words the file can hold before rewriting
WordChoices ==
    { 0, MakeWord(0, 0, 1), MakeWord(0, 1, 1), MakeWord(1, 0, 2), MakeWord(1, 1, 3) }

SlideBackingCaches == << BackingCache(TRUE, PrimaryPath, << Mapping(1, 2) >>) >>

InitSlide ==
    /\ sr \in { [ file |-> f, bytes |-> b, slideApplied |-> FALSE, aborted |-> FALSE,
                  runs |-> <<>> ] :
                f \in SlideFiles, b \in [ 0 .. MaxLoc -> WordChoices ] }
    /\ ctp = NoValue /\ heap = NoValue /\ ctl = NoValue
    /\ vs = NoValue /\ view = NoValue /\ hist = NoValue
    /\ trie = NoValue /\ sem = NoValue /\ hdr = NoValue

\* one call of ParseAndApplySlideInfoForFile on the accessor
SlideRun ==
    /\ ~sr.aborted
    /\ Len(sr.runs) < MaxRuns
    /\ LET r == ParseAndApplySlideInfoForFile(sr.file, sr.bytes, sr.slideApplied,
                                              SlideBase(SlideBackingCaches, WordMod - 1))
       IN sr' = [sr EXCEPT
                   !.bytes = r.bytes,
                   !.slideApplied = r.slideApplied,
                   !.aborted = (r.outcome = "aborted"),
                   !.runs = Append(@, [ outcome |-> r.outcome, writes |-> r.writes,
                                        flagBefore |-> sr.slideApplied,
                                        flagAfter |-> r.slideApplied,
                                        bytesBefore |-> sr.bytes,
                                        bytesAfter |-> r.bytes ])]
    /\ UNCHANGED <<ctp, heap, ctl, vs, view, hist, trie, sem, hdr>>

NextSlide == SlideRun

SpecSlide == InitSlide /\ [][NextSlide]_vars

(***************************************************************************)
(* SpecRace: two threads call ParseAndApplySlideInfoForFile on the same    *)
(* accessor.  The function takes no lock of its own; its accesses to the   *)
(* accessor are the flag test (1031), the reads of the walk (1037-1344),   *)
(* one WritePointer per collected rewrite (1346-1348) and the flag store   *)
(* (1138 / 1373).  A thread t has a position sr.th[t].pc:                  *)
(*   "call"  before the flag test                                          *)
(*   "walk"  flag seen false, rewrites not yet collected                   *)
(*   "write" rewrites collected, sr.th[t].rewrites still to be written     *)
(*   "done"  left the function, with sr.th[t].outcome                      *)
(***************************************************************************)
RaceThreads == {1, 2}

RaceFiles ==
    { [ headerOk |-> TRUE, legacy |-> FALSE, legacyInfo |-> SlideInfo(FALSE, FALSE, FALSE, 2, 0),
        entries |-> es ] :
        es \in UNION { [ 1 .. k -> FullInfos \cup SkippedInfos ] : k \in 0 .. 1 } }
    \cup
    { [ headerOk |-> TRUE, legacy |-> TRUE, legacyInfo |-> i, entries |-> <<>> ] :
        i \in FullInfos }
    \cup
    { [ headerOk |-> FALSE, legacy |-> FALSE, legacyInfo |-> SlideInfo(FALSE, FALSE, FALSE, 2, 0),
        entries |-> <<>> ] }

RaceThread(pc, sawApplied, rewrites, collected, outcome) ==
    [ pc |-> pc, sawApplied |-> sawApplied, rewrites |-> rewrites,
      collected |-> collected, outcome |-> outcome ]

InitRace ==
    /\ sr \in { [ file |-> f, initial |-> b, bytes |-> b, slideApplied |-> FALSE,
                  aborted |-> FALSE,
                  th |-> [ t \in RaceThreads |-> RaceThread("call", FALSE, <<>>, <<>>, "none") ] ] :
                f \in RaceFiles, b \in [ 0 .. MaxLoc -> WordChoices ] }
    /\ ctp = NoValue /\ heap = NoValue /\ ctl = NoValue
    /\ vs = NoValue /\ view = NoValue /\ hist = NoValue
    /\ trie = NoValue /\ sem = NoValue /\ hdr = NoValue

\* if (file->SlideInfoWasApplied()) return;
RaceCheck(t) ==
    /\ ~sr.aborted
    /\ sr.th[t].pc = "call"
    /\ sr' = [sr EXCEPT !.th[t] =
                IF SlideAlreadyApplied(sr.slideApplied)
                THEN RaceThread("done", TRUE, <<>>, <<>>, "returned")
                ELSE RaceThread("walk", FALSE, <<>>, <<>>, "none")]
    /\ UNCHANGED <<ctp, heap, ctl, vs, view, hist, trie, sem, hdr>>

\* the structural reads and the chain walks, on the words as they are now
RaceWalk(t) ==
    /\ ~sr.aborted
    /\ sr.th[t].pc = "walk"
    /\ LET r == ParseAndApplySlideInfoForFile(sr.file, sr.bytes, FALSE,
                                              SlideBase(SlideBackingCaches, WordMod - 1))
       IN sr' = CASE r.outcome = "aborted" ->
                       [sr EXCEPT !.aborted = TRUE,
                                  !.th[t] = RaceThread("done", FALSE, <<>>, <<>>, "aborted")]
                  [] r.outcome = "threw" ->
                       [sr EXCEPT !.th[t] = RaceThread("done", FALSE, <<>>, <<>>, "threw")]
                  [] OTHER ->
                       [sr EXCEPT !.th[t] = RaceThread("write", FALSE, r.writes, r.writes, "none")]
    /\ UNCHANGED <<ctp, heap, ctl, vs, view, hist, trie, sem, hdr>>

\* file->WritePointer(loc, value) for the next collected rewrite
RaceWrite(t) ==
    /\ ~sr.aborted
    /\ sr.th[t].pc = "write"
    /\ sr.th[t].rewrites # <<>>
    /\ sr' = [sr EXCEPT !.bytes = ApplyRewrites(@, <<Head(sr.th[t].rewrites)>>),
                        !.th[t].rewrites = Tail(@)]
    /\ UNCHANGED <<ctp, heap, ctl, vs, view, hist, trie, sem, hdr>>

\* file->SetSlideInfoWasApplied(true)
RaceSetApplied(t) ==
    /\ ~sr.aborted
    /\ sr.th[t].pc = "write"
    /\ sr.th[t].rewrites = <<>>
    /\ sr' = [sr EXCEPT !.slideApplied = TRUE,
                        !.th[t].pc = "done", !.th[t].outcome = "returned"]
    /\ UNCHANGED <<ctp, heap, ctl, vs, view, hist, trie, sem, hdr>>

NextRace ==
    \E t \in RaceThreads :
        \/ RaceCheck(t)
        \/ RaceWalk(t)
        \/ RaceWrite(t)
        \/ RaceSetApplied(t)

SpecRace == InitRace /\ [][NextRace]_vars

(***************************************************************************)
(* Persistence: Store / Load of the State and of its structures.  A        *)
(* document holds exactly the members the Store functions write.           *)
(***************************************************************************)
MemoryRegionStore(r) ==
    [ prettyName |-> r.prettyName, start |-> r.start, size |-> r.size,
      loaded |-> r.loaded, rawViewOffsetIfLoaded |-> r.rawViewOffsetIfLoaded,
      flags |-> r.flags ]

\* MemoryRegion r; r.Load(...): members not read keep their initialisers
MemoryRegionLoad(d) ==
    [ MemoryRegion(d.prettyName, d.start, d.size, d.flags) EXCEPT
        !.loaded = d.loaded, !.rawViewOffsetIfLoaded = d.rawViewOffsetIfLoaded ]

CacheImageStore(img) ==
    [ installName |-> img.installName, headerLocation |-> img.headerLocation,
      regions |-> [ k \in DOMAIN img.regions |-> MemoryRegionStore(img.regions[k]) ] ]

CacheImageLoad(d) ==
    [ installName |-> d.installName, headerLocation |-> d.headerLocation,
      regions |-> SubSeq([ k \in DOMAIN d.regions |-> MemoryRegionLoad(d.regions[k]) ],
                         1, Len(d.regions)) ]

BackingCacheStore(bc) ==
    [ path |-> bc.path, isPrimary |-> bc.isPrimary,
      mappings |-> [ j \in DOMAIN bc.mappings |->
                       << bc.mappings[j].address, bc.mappings[j].size,
                          bc.mappings[j].fileOffset, bc.mappings[j].maxProt,
                          bc.mappings[j].initProt >> ] ]

BackingCacheLoad(d) ==
    [ isPrimary |-> d.isPrimary, path |-> d.path,
      mappings |-> [ j \in DOMAIN d.mappings |->
                       [ address |-> d.mappings[j][1], size |-> d.mappings[j][2],
                         fileOffset |-> d.mappings[j][3], initProt |-> d.mappings[j][5],
                         maxProt |-> d.mappings[j][4] ] ] ]

\* SharedCacheMachOHeader::Store: routines64 is not written
SharedCacheMachOHeaderStore(h) ==
    [ textBase |-> h.textBase, installName |-> h.installName,
      identifierPrefix |-> h.identifierPrefix, segments |-> h.segments,
      linkeditPresent |-> h.linkeditPresent, linkeditSegment |-> h.linkeditSegment,
      symtabSymoff |-> h.symtabSymoff, exportTriePresent |-> h.exportTriePresent,
      functionStartsPresent |-> h.functionStartsPresent,
      routinesPresent |-> h.routinesPresent, exportTriePath |-> h.exportTriePath ]

\* SharedCacheMachOHeader::Load: routinesPresent and routines64 are not read
SharedCacheMachOHeaderLoad(d) ==
    [ EmptyHeader(d.textBase, d.installName) EXCEPT
        !.identifierPrefix = d.identifierPrefix,
        !.segments = d.segments,
        !.linkeditPresent = d.linkeditPresent,
        !.linkeditSegment = d.linkeditSegment,
        !.symtabSymoff = d.symtabSymoff,
        !.exportTriePresent = d.exportTriePresent,
        !.functionStartsPresent = d.functionStartsPresent,
        !.exportTriePath = d.exportTriePath ]

\* SharedCache::Store
Store(st) ==
    [ metadataVersion |-> "METADATA_VERSION",
      m_viewState |-> st.viewState,
      m_cacheFormat |-> st.cacheFormat,
      m_imageStarts |-> st.imageStarts,
      m_baseFilePath |-> st.baseFilePath,
      headers |-> [ i \in DOMAIN st.headers |-> SharedCacheMachOHeaderStore(st.headers[i][2]) ],
      exportInfos |-> st.exportInfos,
      symbolInfos |-> st.symbolInfos,
      backingCaches |-> [ i \in DOMAIN st.backingCaches |->
                            BackingCacheStore(st.backingCaches[i]) ],
      stubIslands |-> [ i \in DOMAIN st.stubIslandRegions |->
                          MemoryRegionStore(st.stubIslandRegions[i]) ],
      images |-> [ i \in DOMAIN st.images |-> CacheImageStore(st.images[i]) ],
      regionsMappedIntoMemory |-> [ i \in DOMAIN st.regionsMappedIntoMemory |->
                                      MemoryRegionStore(st.regionsMappedIntoMemory[i]) ],
      dyldDataSections |-> [ i \in DOMAIN st.dyldDataRegions |->
                               MemoryRegionStore(st.dyldDataRegions[i]) ],
      nonImageRegions |-> [ i \in DOMAIN st.nonImageRegions |->
                              MemoryRegionStore(st.nonImageRegions[i]) ] ]

\* headers[header.textBase] = header for every stored header
RECURSIVE LoadHeaders(_, _)
LoadHeaders(m, docs) ==
    IF docs = <<>> THEN m
    ELSE LoadHeaders(MapPut(m, Head(docs).textBase, SharedCacheMachOHeaderLoad(Head(docs))),
                     Tail(docs))

\* SharedCache::Load: None when the version check returns early (another
\* version, or "missing" for a document without the member), else the state
\* built in a fresh State object.  The image vector is built as a tuple
\* (SubSeq) because later handlers update single regions inside it.
Load(doc) ==
    IF doc.metadataVersion # "METADATA_VERSION" THEN None
    ELSE Some([ EmptyState EXCEPT
           !.viewState = doc.m_viewState,
           !.cacheFormat = doc.m_cacheFormat,
           !.headers = LoadHeaders(<<>>, doc.headers),
           !.imageStarts = doc.m_imageStarts,
           !.baseFilePath = doc.m_baseFilePath,
           !.exportInfos = doc.exportInfos,
           !.symbolInfos = doc.symbolInfos,
           !.backingCaches = [ i \in DOMAIN doc.backingCaches |->
                                 BackingCacheLoad(doc.backingCaches[i]) ],
           !.images = SubSeq([ i \in DOMAIN doc.images |-> CacheImageLoad(doc.images[i]) ],
                             1, Len(doc.images)),
           !.regionsMappedIntoMemory = [ i \in DOMAIN doc.regionsMappedIntoMemory |->
                                           MemoryRegionLoad(doc.regionsMappedIntoMemory[i]) ],
           !.stubIslandRegions = [ i \in DOMAIN doc.stubIslands |->
                                     MemoryRegionLoad(doc.stubIslands[i]) ],
           !.dyldDataRegions = [ i \in DOMAIN doc.dyldDataSections |->
                                   MemoryRegionLoad(doc.dyldDataSections[i]) ],
           !.nonImageRegions = [ i \in DOMAIN doc.nonImageRegions |->
                                   MemoryRegionLoad(doc.nonImageRegions[i]) ] ])

(***************************************************************************)
(* Controllers on one view.  The handlers are operators on a world w:      *)
(*   w.heap    State objects by identity (index)                           *)
(*   w.ctl     per controller: pc, m_state (0: null), m_stateIsShared,     *)
(*             m_metadataValid                                             *)
(*   w.vs      ViewSpecificState: cachedState (0: null), lockOwner of      *)
(*             viewOperationsThatInfluenceMetadataMutex, progress          *)
(*   w.view    the host view: metadata, user segments, end of the raw      *)
(*             view, open undo brackets, load settings, the cache files    *)
(*             and the files whose accessor has slide info applied         *)
(*   w.aborted the process has ended: abort(), or a fault                  *)
(*   w.nullDeref  what a read through a null pointer does in this call     *)
(*   w.writes  the State writes and snapshot installations of the handler  *)
(*             so far: where, whether the writer held the lock, and        *)
(*             whether the object written to was the cached state          *)
(***************************************************************************)
Controllers == {"c1", "c2"}

CtlOrder == <<"c1", "c2">>

StateOf(w, c) == w.heap[w.ctl[c].m_state]

\* the value of one step of a handler, named for the steps that follow it
Bind(value, Rest(_)) == Rest(value)

\* m_state = std::make_shared<State>(st)
NewState(w, c, st) ==
    [w EXCEPT !.heap = Append(@, st), !.ctl[c].m_state = Len(w.heap) + 1]

\* a WillMutateState that clears the flag and keeps the shared object
WillMutateState_NoClone(w, c) ==
    LET w1 == IF w.ctl[c].m_state = 0 THEN NewState(w, c, EmptyState) ELSE w
    IN [w1 EXCEPT !.ctl[c].m_stateIsShared = FALSE]

WillMutateState(w, c) ==
    LET w1 == IF w.ctl[c].m_state = 0 THEN NewState(w, c, EmptyState)
              ELSE IF w.ctl[c].m_stateIsShared THEN NewState(w, c, StateOf(w, c))
              ELSE w
    IN [w1 EXCEPT !.ctl[c].m_stateIsShared = FALSE]

Lock(w, c) == [w EXCEPT !.vs.lockOwner = c]

Unlock(w, c) == [w EXCEPT !.vs.lockOwner = "free"]

WriteEvent(w, c, site, obj) ==
    [ site |-> site, locked |-> (w.vs.lockOwner = c),
      intoCached |-> (obj # 0 /\ obj = w.vs.cachedState) ]

\* MutableState() = st: AssertMutable, then the write into *m_state
MutateState(w, c, st, site) ==
    IF w.aborted THEN w
    ELSE IF w.ctl[c].m_stateIsShared THEN [w EXCEPT !.aborted = TRUE]
    ELSE [w EXCEPT !.heap[w.ctl[c].m_state] = st,
                   !.writes = @ \cup {WriteEvent(w, c, site, w.ctl[c].m_state)}]

\* The State moves into a new shared object that becomes the view's cached
\* state; pointers into its vectors stay valid, so the object keeps its
\* identity here.
SaveToDSCView(w, c) ==
    IF w.aborted THEN w
    ELSE [w EXCEPT !.view.metadata = Some(Store(StateOf(w, c))),
                   !.ctl[c].m_stateIsShared = TRUE,
                   !.ctl[c].m_metadataValid = TRUE,
                   !.vs.cachedState = w.ctl[c].m_state,
                   !.writes = @ \cup {WriteEvent(w, c, "SaveToDSCView", 0)}]

\* LoadFromString(metadata): Load into a fresh State
LoadFromString(w, c, doc) ==
    Bind(Load(doc), LAMBDA loaded :
        IF IsSome(loaded)
        THEN [NewState(w, c, Get(loaded)) EXCEPT
                !.ctl[c].m_stateIsShared = FALSE, !.ctl[c].m_metadataValid = TRUE]
        ELSE w)

DeserializeFromRawView(w, c) ==
    IF IsSome(w.view.metadata)
    THEN Bind(IF w.vs.cachedState # 0
              THEN [w EXCEPT !.ctl[c].m_state = w.vs.cachedState,
                             !.ctl[c].m_stateIsShared = TRUE,
                             !.ctl[c].m_metadataValid = TRUE]
              ELSE LoadFromString(w, c, Get(w.view.metadata)),
              LAMBDA w1 :
                IF ~w1.ctl[c].m_metadataValid
                THEN Bind(WillMutateState(w1, c), LAMBDA w2 :
                         MutateState(w2, c, [StateOf(w2, c) EXCEPT !.viewState = "Unloaded"],
                                     "DeserializeFromRawView"))
                ELSE w1)
    ELSE Bind(WillMutateState([w EXCEPT !.ctl[c].m_metadataValid = TRUE], c), LAMBDA w1 :
             MutateState(w1, c, [StateOf(w1, c) EXCEPT !.viewState = "Unloaded",
                                                      !.images = <<>>],
                         "DeserializeFromRawView"))

\* vm->AddressIsMapped(addr) on the map of GetVMMap()
AddressIsMapped(st, addr) == MappingPathAt(st.backingCaches, addr) # <<>>

\* ParseAndApplySlideInfoForFile(file of addr) from a loading handler; the
\* cache files of these views carry no slide info (see SpecSlide for the
\* rewriting itself)
ApplySlideAt(w, c, addr) ==
    LET w1 == WillMutateState(w, c)
    IN [w1 EXCEPT !.view.slideApplied =
            @ \cup {MappingPathAt(StateOf(w1, c).backingCaches, addr)}]

\* the host-view part of materialising a region: buffers written at the end
\* of the raw view, AddAutoSegment, AddUserSegment
AddSegmentFor(w, region) ==
    [w EXCEPT !.view.segments = Append(@, <<region.start, region.size>>),
              !.view.rawEnd = @ + region.size]

MarkLoaded(region, rawViewEnd) ==
    [region EXCEPT !.loaded = TRUE, !.rawViewOffsetIfLoaded = rawViewEnd]

\* what the symbol table and the export trie of an image hold
SymtabSymbols(header) == << <<header.textBase, <<"FunctionSymbol", "_sym">> >> >>

ExportTrieSymbols(header) == << <<header.textBase, <<"FunctionSymbol", "_exp">> >> >>

\* a MemoryRegion* into the images of a State object
RegionPtr(obj, image, region) == [ obj |-> obj, image |-> image, region |-> region ]

Deref(w, p) == w.heap[p.obj].images[p.image].regions[p.region]

RECURSIVE SetHeaderInitialized(_, _, _)
SetHeaderInitialized(w, c, ptrs) ==
    IF ptrs = <<>> THEN w
    ELSE LET p == Head(ptrs)
         IN SetHeaderInitialized(
                [w EXCEPT !.heap[p.obj].images[p.image].regions[p.region].headerInitialized
                              = TRUE,
                          !.writes = @ \cup {WriteEvent(w, c, "InitializeHeader", p.obj)}],
                c, Tail(ptrs))

\* InitializeHeader(view, vm, header, regionsToLoad): symbols go into
\* m_state after WillMutateState, the flags through the region pointers
InitializeHeader(w, c, header, regionsToLoad) ==
    LET w1  == WillMutateState(w, c)
        st  == StateOf(w1, c)
        le  == header.linkeditPresent /\ AddressIsMapped(st, header.linkeditSegment.vmaddr)
        st1 == IF header.symtabSymoff # 0 /\ le
               THEN [st EXCEPT !.symbolInfos = MapPut(@, header.textBase, SymtabSymbols(header))]
               ELSE st
        st2 == IF header.exportTriePresent /\ le
               THEN [st1 EXCEPT !.exportInfos =
                                    MapPut(@, header.textBase, ExportTrieSymbols(header))]
               ELSE st1
        w2  == IF (header.symtabSymoff # 0 \/ header.exportTriePresent) /\ le
               THEN MutateState(w1, c, st2, "InitializeHeader")
               ELSE w1
    IN SetHeaderInitialized(w2, c, regionsToLoad)

\* the first index a loop reaches among those that satisfy its test
First(S) == CHOOSE x \in S : \A y \in S : x <= y

\* the entry of every loading handler: lock, DeserializeFromRawView,
\* WillMutateState
BeginLoading(w, c) == WillMutateState(DeserializeFromRawView(Lock(w, c), c), c)

\* index of the first image with this install name; 0 for targetImage == nullptr
ImageIndex(st, installName) ==
    IF \E i \in DOMAIN st.images : st.images[i].installName = installName
    THEN First({ i \in DOMAIN st.images : st.images[i].installName = installName })
    ELSE 0

\* the loop over targetImage->regions from region k on; acc: regionsToLoad
RECURSIVE LoadImageRegions(_, _, _, _, _)
LoadImageRegions(w, c, ti, k, acc) ==
    IF k > Len(StateOf(w, c).images[ti].regions)
    THEN [ world |-> w, regionsToLoad |-> acc ]
    ELSE LET region == StateOf(w, c).images[ti].regions[k]
         IN IF \/ /\ NameContainsLinkedit(region.prettyName)
                  /\ ~w.view.settings.allowLoadingLinkeditSegments
               \/ region.loaded
            THEN LoadImageRegions(w, c, ti, k + 1, acc)
            ELSE LET w1  == ApplySlideAt(w, c, region.start)
                     r1  == MarkLoaded(region, w1.view.rawEnd)
                     st1 == [StateOf(w1, c) EXCEPT
                               !.images[ti].regions[k] = r1,
                               !.regionsMappedIntoMemory = Append(@, r1)]
                     w2  == AddSegmentFor(
                                MutateState(w1, c, st1, "LoadImageWithInstallName"), r1)
                 IN LoadImageRegions(w2, c, ti, k + 1, Append(acc, k))

Returned(w, c, result) == [ world |-> Unlock(w, c), result |-> result ]

\* A call with a name no image has dereferences the null targetImage; the
\* calls of this specification pass names of images of the state.
\* from SaveToDSCView to the end, for the regions the loop loaded
LoadImageInitialize(w3, c, ti, regionsToLoad, h) ==
    IF ~IsSome(h) THEN Returned(w3, c, FALSE)
    ELSE Returned([InitializeHeader(w3, c, Get(h),
                       [ i \in DOMAIN regionsToLoad |->
                           RegionPtr(w3.ctl[c].m_state, ti, regionsToLoad[i]) ])
                   EXCEPT !.view.undoOpen = @ - 1], c, TRUE)

\* from BeginUndoActions on, for the image at index ti of the state
\* (the image is a key of headers, so initial load has read its header from
\* the same mapped bytes: the second LoadHeaderForAddress returns as well)
LoadImageFound(w1, c, ti, installName) ==
    Bind(LoadImageRegions(
             MutateState([w1 EXCEPT !.view.undoOpen = @ + 1], c,
                         [StateOf(w1, c) EXCEPT !.viewState = "LoadedWithImages"],
                         "LoadImageWithInstallName"),
             c, ti, 1, <<>>),
         LAMBDA l :
           IF l.regionsToLoad = <<>> THEN Returned(l.world, c, FALSE)
           ELSE LoadImageInitialize(
                    SaveToDSCView(l.world, c), c, ti, l.regionsToLoad,
                    LoadHeaderForAddress(w1.view.disk.machos,
                                         StateOf(w1, c).images[ti].headerLocation,
                                         installName).header))

\* With no image of that name targetImage is still nullptr at
\* targetImage->headerLocation: the process faults, or the read yields a
\* value that is no key of headers.
LoadImageLocked(w1, c, ti, installName) ==
    IF ti = 0
    THEN Returned([w1 EXCEPT !.aborted = (w1.nullDeref = "fault")], c, FALSE)
    ELSE IF ~MapHas(StateOf(w1, c).headers, StateOf(w1, c).images[ti].headerLocation)
    THEN Returned(w1, c, FALSE)
    ELSE LoadImageFound(w1, c, ti, installName)

LoadImageWithInstallName(w0, c, installName) ==
    Bind(BeginLoading(w0, c), LAMBDA w1 :
        LoadImageLocked(w1, c, ImageIndex(StateOf(w1, c), installName), installName))

\* first header with a segment around the address
HeaderForAddress(st, address) ==
    LET hits == { i \in DOMAIN st.headers :
                    \E k \in DOMAIN st.headers[i][2].segments :
                        /\ st.headers[i][2].segments[k].vmaddr <= address
                        /\ st.headers[i][2].segments[k].vmaddr
                             + st.headers[i][2].segments[k].vmsize > address }
    IN IF hits = {} THEN None ELSE Some(st.headers[First(hits)][2])

\* works on the controller's own state, then calls LoadImageWithInstallName
LoadImageContainingAddress(w, c, address) ==
    Bind(HeaderForAddress(StateOf(w, c), address), LAMBDA header :
        IF IsSome(header) THEN LoadImageWithInstallName(w, c, Get(header).installName)
        ELSE [ world |-> w, result |-> FALSE ])

RegionContains(region, address) ==
    region.start <= address /\ region.start + region.size > address

\* index of the first region of a list around the address, 0 if none
FirstRegionAt(regions, address) ==
    IF \E i \in DOMAIN regions : RegionContains(regions[i], address)
    THEN First({ i \in DOMAIN regions : RegionContains(regions[i], address) })
    ELSE 0

\* the body shared by the stub island, dyld data and non-image loops of
\* LoadSectionAtAddress for the region found at index i of the member list
LoadListedRegion(w, c, list, i) ==
    IF StateOf(w, c)[list][i].loaded THEN Returned(w, c, TRUE)
    ELSE Bind(ApplySlideAt(w, c, StateOf(w, c)[list][i].start), LAMBDA w1 :
         Bind(MarkLoaded(StateOf(w1, c)[list][i], w1.view.rawEnd), LAMBDA r1 :
            Returned(
                SaveToDSCView(
                    AddSegmentFor(
                        MutateState(w1, c,
                                    [StateOf(w1, c) EXCEPT
                                       ![list][i] = r1,
                                       !.regionsMappedIntoMemory = Append(@, r1)],
                                    "LoadSectionAtAddress"),
                        r1),
                    c),
                c, TRUE)))

\* the image and region index of the first image region around the address
FirstImageRegionAt(st, address) ==
    LET hits == { i \in DOMAIN st.images : FirstRegionAt(st.images[i].regions, address) # 0 }
    IN IF hits = {} THEN <<0, 0>>
       ELSE <<First(hits), FirstRegionAt(st.images[First(hits)].regions, address)>>

\* the tail of LoadSectionAtAddress: the segment of an image
LoadImageSegment(w1, c, ti, k) ==
    Bind(MapGet(StateOf(w1, c).headers, StateOf(w1, c).images[ti].headerLocation),
         LAMBDA targetHeader :
    Bind(ApplySlideAt([w1 EXCEPT !.view.undoOpen = @ + 1], c,
                      StateOf(w1, c).images[ti].regions[k].start), LAMBDA w2 :
    Bind(MarkLoaded(StateOf(w2, c).images[ti].regions[k], w1.view.rawEnd), LAMBDA r1 :
    Bind(SaveToDSCView(
             AddSegmentFor(
                 MutateState(w2, c,
                             [StateOf(w2, c) EXCEPT
                                !.images[ti].regions[k] = r1,
                                !.regionsMappedIntoMemory = Append(@, r1)],
                             "LoadSectionAtAddress"),
                 r1),
             c), LAMBDA w4 :
    Bind(RegionPtr(w4.ctl[c].m_state, ti, k), LAMBDA targetSegment :
        Returned([ (IF ~Deref(w4, targetSegment).headerInitialized
                    THEN InitializeHeader(w4, c, targetHeader, <<targetSegment>>)
                    ELSE w4)
                   EXCEPT !.view.undoOpen = @ - 1], c, TRUE))))))

LoadSectionAtAddress(w0, c, address) ==
    Bind(BeginLoading(w0, c), LAMBDA w1 :
    Bind(StateOf(w1, c), LAMBDA st :
    Bind(FirstImageRegionAt(st, address), LAMBDA ir :
       CASE ir[1] # 0 -> LoadImageSegment(w1, c, ir[1], ir[2])
         [] ir[1] = 0 /\ FirstRegionAt(st.stubIslandRegions, address) # 0 ->
              LoadListedRegion(w1, c, "stubIslandRegions",
                               FirstRegionAt(st.stubIslandRegions, address))
         [] ir[1] = 0 /\ FirstRegionAt(st.stubIslandRegions, address) = 0
                      /\ FirstRegionAt(st.dyldDataRegions, address) # 0 ->
              LoadListedRegion(w1, c, "dyldDataRegions",
                               FirstRegionAt(st.dyldDataRegions, address))
         [] ir[1] = 0 /\ FirstRegionAt(st.stubIslandRegions, address) = 0
                      /\ FirstRegionAt(st.dyldDataRegions, address) = 0
                      /\ FirstRegionAt(st.nonImageRegions, address) # 0 ->
              LoadListedRegion(w1, c, "nonImageRegions",
                               FirstRegionAt(st.nonImageRegions, address))
         [] OTHER -> Returned(w1, c, FALSE))))

\* MMappedFileAccessor::Open(exportTriePath): the empty path names no file
OpenExportTrieFile(path) == IF path = <<>> THEN "MissingFile" ELSE "opened"

\* ParseExportTrie on the opened file: nothing without an export trie
ParseExportTrie(header) ==
    IF header.exportTriePresent THEN ExportTrieSymbols(header) ELSE <<>>

\* the loop over State().images of LoadAllSymbolsAndWait; an image whose
\* file does not open is skipped
RECURSIVE LoadAllExports(_, _)
LoadAllExports(st, images) ==
    IF images = <<>> THEN [ state |-> st, wrote |-> FALSE ]
    ELSE LET header == Get(HeaderForAddress(st, Head(images).headerLocation))
         IN IF OpenExportTrieFile(header.exportTriePath) # "opened"
            THEN LoadAllExports(st, Tail(images))
            ELSE [ LoadAllExports([st EXCEPT !.exportInfos =
                                       MapPut(@, header.textBase, ParseExportTrie(header))],
                                  Tail(images))
                   EXCEPT !.wrote = TRUE ]

\* WillMutateState comes before the lock is taken
LoadAllSymbolsAndWait(w0, c) ==
    Bind(Lock(WillMutateState(w0, c), c), LAMBDA w1 :
    Bind(LoadAllExports(StateOf(w1, c), StateOf(w1, c).images), LAMBDA r :
        Returned(SaveToDSCView(IF r.wrote
                               THEN MutateState(w1, c, r.state, "LoadAllSymbolsAndWait")
                               ELSE w1, c),
                 c, TRUE)))

\* PerformInitialLoad as the constructor calls it, SaveToDSCView included;
\* an exception leaves it before the save
InitialLoad(w, c) ==
    Bind(WillMutateState([w EXCEPT !.vs.progress = "LoadingCaches"], c), LAMBDA w1 :
    Bind(PerformInitialLoad(StateOf(w1, c), w.view.disk), LAMBDA r :
    Bind(MutateState(w1, c, r.state, "PerformInitialLoad"), LAMBDA w2 :
        IF r.outcome = "threw" THEN [w2 EXCEPT !.vs.progress = r.progress]
        ELSE [SaveToDSCView(w2, c) EXCEPT !.vs.progress = r.progress])))

\* header.installName.find("libsystem_c.dylib") != npos
IsLibSystemC(installName) == installName[3] = <<"libsystem_c.dylib">>

\* the end of the constructor: MutableState().viewState = Loaded; save
ConstructorTail(w, c) ==
    SaveToDSCView(MutateState(w, c, [StateOf(w, c) EXCEPT !.viewState = "Loaded"],
                              "SharedCache"), c)

\* The constructor up to the point where it unlocks to load libsystem_c, or
\* to its end.  next: "ready" (constructed), "autoload" (unlocked, about to
\* call LoadImageWithInstallName with the name), "invalid" (metadata not
\* valid).
\* the constructor after PerformInitialLoad: the load settings and the
\* search for libsystem_c among the headers hs
ConstructorLoaded(w2, c, hs, libs) ==
    IF w2.view.settings.autoLoadLibSystem /\ libs # {}
    THEN [ world |-> Unlock(w2, c), next |-> "autoload",
           name |-> hs[First(libs)][2].installName, initialLoadRan |-> TRUE ]
    ELSE [ world |-> Unlock(ConstructorTail(w2, c), c), next |-> "ready",
           name |-> <<>>, initialLoadRan |-> TRUE ]

Constructor(w0, c) ==
    Bind(DeserializeFromRawView(w0, c), LAMBDA w1 :
       IF ~w1.ctl[c].m_metadataValid
       THEN [ world |-> w1, next |-> "invalid", name |-> <<>>, initialLoadRan |-> FALSE ]
       ELSE IF StateOf(w1, c).viewState # "Unloaded"
       THEN [ world |-> [w1 EXCEPT !.vs.progress = "Finished"], next |-> "ready",
              name |-> <<>>, initialLoadRan |-> FALSE ]
       ELSE Bind(InitialLoad(Lock(w1, c), c), LAMBDA w2 :
                ConstructorLoaded(w2, c, StateOf(w2, c).headers,
                    { i \in DOMAIN StateOf(w2, c).headers :
                        IsLibSystemC(StateOf(w2, c).headers[i][2].installName) })))

\* the rest of the constructor after lock.unlock()
ConstructorAutoload(w, c, installName) ==
    ConstructorTail(LoadImageWithInstallName(w, c, installName).world, c)

\* State objects no shared_ptr owns are destroyed; the others are numbered
\* in the order cachedState, m_state of each controller
LiveObjects(w) ==
    LET raw == <<w.vs.cachedState>> \o [ i \in DOMAIN CtlOrder |-> w.ctl[CtlOrder[i]].m_state ]
    IN SelectSeq([ i \in DOMAIN raw |->
                     IF raw[i] # 0 /\ \A j \in 1 .. (i - 1) : raw[j] # raw[i]
                     THEN raw[i] ELSE 0 ],
                 LAMBDA x : x # 0)

ReleaseUnowned(w) ==
    LET live == LiveObjects(w)
        renumbered(id) == IF id = 0 THEN 0 ELSE CHOOSE k \in DOMAIN live : live[k] = id
    IN [w EXCEPT !.heap = [ k \in DOMAIN live |-> w.heap[live[k]] ],
                 !.vs.cachedState = renumbered(@),
                 !.ctl = [ c \in Controllers |->
                             [w.ctl[c] EXCEPT !.m_state = renumbered(@)] ]]

(***************************************************************************)
(* Spec: controllers constructed, used and released on one view.           *)
(***************************************************************************)
LibSystemC == <<"usr", "lib", <<"libsystem_c.dylib">> >>

\* A cache with two sub-caches: a ".dylddata" file with two mappings and a
\* stub island.  libsystem_c has __TEXT, __LINKEDIT, a symbol table, an
\* export trie and LC_ROUTINES_64; libA has __TEXT, __LINKEDIT and a symbol
\* table.
LoaderDisk(images, cacheType) ==
    [ raw |-> [ mappingOffset |-> OffObjcOptsEnd, imagesCountOld |-> 0,
                cacheType |-> cacheType, subCacheArrayCount |-> 2,
                imagesCount |-> Len(images), objcOptsOffset |-> 1, objcOptsSize |-> 1 ],
      exists01 |-> FALSE,
      symbolsExists |-> FALSE,
      mappings |-> << Mapping(0, 6) >>,
      subs |-> << [ ext |-> <<1, "dylddata">>,
                    mappings |-> << Mapping(8, 1), Mapping(9, 1) >>, hasImages |-> FALSE ],
                  [ ext |-> <<2, "">>,
                    mappings |-> << Mapping(10, 1) >>, hasImages |-> FALSE ] >>,
      symbolsMappings |-> <<>>,
      imageInfos |-> images,
      machos |-> (1 :> MachO(<< SegmentCommand("LC_SEGMENT_64", "__TEXT", 1, 1),
                                SegmentCommand("LC_SEGMENT_64", "__LINKEDIT", 3, 1),
                                OtherCommand("LC_SYMTAB", 1),
                                OtherCommand("LC_DYLD_EXPORTS_TRIE", 0),
                                OtherCommand("LC_ROUTINES_64", 1) >>)
                  @@ 2 :> MachO(<< SegmentCommand("LC_SEGMENT_64", "__TEXT", 2, 1),
                                   SegmentCommand("LC_SEGMENT_64", "__LINKEDIT", 4, 1),
                                   OtherCommand("LC_SYMTAB", 1) >>)) ]

\* an iOS16 cache with libsystem_c, one without it, and a Split cache whose
\* ".symbols" file is missing
LoaderDisks ==
    { LoaderDisk(<< <<LibSystemC, 1>>, <<LibA, 2>> >>, 2),
      LoaderDisk(<< <<LibA, 2>> >>, 2),
      LoaderDisk(<< <<LibSystemC, 1>>, <<LibA, 2>> >>, 1) }

\* addresses handed to load_section_at and load_image_containing: non-image
\* part of the primary mapping, libsystem_c __TEXT, libA __TEXT, libsystem_c
\* __LINKEDIT, dyld data, stub island, unmapped
CallAddresses == {0, 1, 2, 3, 8, 10, 12}

FreshController ==
    [ pc |-> "absent", m_state |-> 0, m_stateIsShared |-> FALSE,
      m_metadataValid |-> FALSE, autoload |-> <<>> ]

\* std::make_shared<ViewSpecificState>()
FreshViewSpecificState ==
    [ cachedState |-> 0, lockOwner |-> "free", progress |-> "NotStarted" ]

\* what the view holds for a new controller: the cached state, else the
\* stored metadata
SavedState ==
    IF vs.cachedState # 0 THEN Some(heap[vs.cachedState])
    ELSE IF IsSome(view.metadata) THEN Load(Get(view.metadata))
    ELSE None

SavedSummary ==
    IF IsSome(SavedState)
    THEN Some([ viewState |-> Get(SavedState).viewState, images |-> Get(SavedState).images,
                backingCaches |-> Get(SavedState).backingCaches,
                imageStarts |-> Get(SavedState).imageStarts ])
    ELSE None

NoOperation ==
    [ op |-> "none", c |-> "none", name |-> <<>>, address |-> 0, result |-> FALSE,
      writes |-> {}, segsAdded |-> 0, repeat |-> FALSE, targetLoaded |-> FALSE,
      initialLoadRan |-> FALSE, savedBefore |-> None, metadataStale |-> FALSE,
      unknownName |-> FALSE, undoOpened |-> 0 ]

\* metadata stored by a build with another schema version, or without the
\* version member
StaleMetadata ==
    { [Store(EmptyState) EXCEPT !.metadataVersion = v, !.m_viewState = "Loaded"] :
        v \in {"OLDER_METADATA_VERSION", "missing"} }

\* the view holds metadata that Load rejects, and no cached state
MetadataIsStale ==
    /\ vs.cachedState = 0
    /\ IsSome(view.metadata)
    /\ ~IsSome(Load(Get(view.metadata)))

Init ==
    /\ heap = <<>>
    /\ ctl = [ c \in Controllers |-> FreshController ]
    /\ vs = FreshViewSpecificState
    /\ view \in { [ metadata |-> md, segments |-> <<>>, rawEnd |-> 0, undoOpen |-> 0,
                    slideApplied |-> {},
                    settings |-> [ autoLoadLibSystem |-> a,
                                   allowLoadingLinkeditSegments |-> FALSE ],
                    disk |-> d ] :
                  a \in BOOLEAN, d \in LoaderDisks,
                  md \in {None} \cup { Some(doc) : doc \in StaleMetadata } }
    /\ hist = [ ops |-> 0, aborted |-> FALSE, last |-> NoOperation,
                noMetadataAtStart |-> (view.metadata = None) ]
    /\ ctp = NoValue /\ sr = NoValue /\ trie = NoValue /\ sem = NoValue /\ hdr = NoValue

World == [ heap |-> heap, ctl |-> ctl, vs |-> vs, view |-> view,
           aborted |-> FALSE, writes |-> {}, nullDeref |-> "fault" ]

\* what a read through a null pointer does
NullDerefOutcomes == {"fault", "garbage"}

\* an install name no image has
UnknownName == <<"usr", "lib", <<"libMissing.dylib">> >>

CanAct == ~hist.aborted /\ hist.ops < MaxOps

\* the variables after a handler left the world w, w1 being w without the
\* unowned objects; last: what the handler did
Finished(w, w1, last) ==
       /\ heap' = w1.heap
       /\ ctl' = w1.ctl
       /\ vs' = w1.vs
       /\ view' = w1.view
       /\ hist' = [ ops |-> hist.ops + 1, aborted |-> w.aborted,
                    noMetadataAtStart |-> hist.noMetadataAtStart,
                    last |-> [last EXCEPT
                                !.writes = w.writes,
                                !.segsAdded = Len(w.view.segments) - Len(view.segments),
                                !.undoOpened = w.view.undoOpen - view.undoOpen] ]
       /\ UNCHANGED <<ctp, sr, trie, sem, hdr>>

Finish(w, last) == Finished(w, ReleaseUnowned(w), last)

\* the region load_section_at finds for the address, if any
TargetRegionAt(st, address) ==
    LET ir == FirstImageRegionAt(st, address)
    IN CASE ir[1] # 0 -> Some(st.images[ir[1]].regions[ir[2]])
         [] ir[1] = 0 /\ FirstRegionAt(st.stubIslandRegions, address) # 0 ->
              Some(st.stubIslandRegions[FirstRegionAt(st.stubIslandRegions, address)])
         [] ir[1] = 0 /\ FirstRegionAt(st.stubIslandRegions, address) = 0
                      /\ FirstRegionAt(st.dyldDataRegions, address) # 0 ->
              Some(st.dyldDataRegions[FirstRegionAt(st.dyldDataRegions, address)])
         [] ir[1] = 0 /\ FirstRegionAt(st.stubIslandRegions, address) = 0
                      /\ FirstRegionAt(st.dyldDataRegions, address) = 0
                      /\ FirstRegionAt(st.nonImageRegions, address) # 0 ->
              Some(st.nonImageRegions[FirstRegionAt(st.nonImageRegions, address)])
         [] OTHER -> None

\* GetFromDSCView: new SharedCache(view), up to the end of the constructor
\* or to the point where it unlocks for libsystem_c
Construct(c) ==
    /\ CanAct
    /\ ctl[c].pc = "absent"
    /\ Bind(Constructor(World, c), LAMBDA r :
         Finish([r.world EXCEPT !.ctl[c].pc = IF r.next = "autoload" THEN "autoload"
                                              ELSE "ready",
                                !.ctl[c].autoload = r.name],
                [NoOperation EXCEPT
                   !.op = IF r.next = "autoload" THEN "construct_unlocked"
                          ELSE "construct",
                   !.c = c, !.result = ~r.world.aborted,
                   !.initialLoadRan = r.initialLoadRan,
                   !.savedBefore = SavedSummary,
                   !.metadataStale = MetadataIsStale]))

\* the constructor from lock.unlock() to its end
ConstructAutoload(c) ==
    /\ CanAct
    /\ ctl[c].pc = "autoload"
    /\ Bind(ConstructorAutoload(World, c, ctl[c].autoload), LAMBDA w0 :
         Finish([w0 EXCEPT !.ctl[c].pc = "ready", !.ctl[c].autoload = <<>>],
                [NoOperation EXCEPT
                   !.op = "construct", !.c = c, !.name = ctl[c].autoload,
                   !.result = ~w0.aborted, !.initialLoadRan = TRUE,
                   !.savedBefore = hist.last.savedBefore]))

\* BNDSCViewLoadImageWithInstallName
LoadImage(c) ==
    /\ CanAct
    /\ ctl[c].pc = "ready"
    /\ \E installName \in { img[1] : img \in Range(view.disk.imageInfos) }
                              \cup {UnknownName},
            ub \in NullDerefOutcomes :
         Bind(LoadImageWithInstallName([World EXCEPT !.nullDeref = ub], c, installName),
              LAMBDA r :
              Finish(r.world, [NoOperation EXCEPT
                                 !.op = "load_image", !.c = c, !.name = installName,
                                 !.result = r.result,
                                 !.unknownName =
                                     ImageIndex(StateOf(BeginLoading(World, c), c),
                                                installName) = 0,
                                 !.repeat = /\ hist.last.op = "load_image"
                                            /\ hist.last.c = c
                                            /\ hist.last.name = installName
                                            /\ hist.last.result]))

\* BNDSCViewLoadSectionAtAddress
LoadSectionAt(c) ==
    /\ CanAct
    /\ ctl[c].pc = "ready"
    /\ \E address \in CallAddresses :
         Bind(LoadSectionAtAddress(World, c, address), LAMBDA r :
         Bind(TargetRegionAt(StateOf(BeginLoading(World, c), c), address), LAMBDA target :
           Finish(r.world, [NoOperation EXCEPT
                              !.op = "load_section_at", !.c = c, !.address = address,
                              !.result = r.result,
                              !.targetLoaded = IsSome(target) /\ Get(target).loaded])))

\* BNDSCViewLoadImageContainingAddress
LoadImageContaining(c) ==
    /\ CanAct
    /\ ctl[c].pc = "ready"
    /\ \E address \in CallAddresses :
         Bind(LoadImageContainingAddress(World, c, address), LAMBDA r :
           Finish(r.world, [NoOperation EXCEPT
                              !.op = "load_image_containing", !.c = c,
                              !.address = address, !.result = r.result]))

\* BNDSCViewLoadAllSymbolsAndWait
LoadAllSymbols(c) ==
    /\ CanAct
    /\ ctl[c].pc = "ready"
    /\ Bind(LoadAllSymbolsAndWait(World, c), LAMBDA r :
         Finish(r.world, [NoOperation EXCEPT
                            !.op = "load_all_symbols_and_wait", !.c = c,
                            !.result = r.result]))

\* The controller is deleted.  The ViewSpecificState is held through weak
\* pointers: with its last controller gone, the next controller gets a new
\* one, without the cached state.
Release(c) ==
    /\ CanAct
    /\ ctl[c].pc = "ready"
    /\ LET w1 == [World EXCEPT !.ctl[c] = FreshController]
           w2 == IF \A k \in Controllers : w1.ctl[k].pc = "absent"
                 THEN [w1 EXCEPT !.vs = FreshViewSpecificState]
                 ELSE w1
       IN Finish(w2, [NoOperation EXCEPT !.op = "release", !.c = c])

Next ==
    \E c \in Controllers :
        \/ Construct(c)
        \/ ConstructAutoload(c)
        \/ LoadImage(c)
        \/ LoadSectionAt(c)
        \/ LoadImageContaining(c)
        \/ LoadAllSymbols(c)
        \/ Release(c)

Spec == Init /\ [][Next]_vars

(***************************************************************************)
(* C1 - C6: loading, persistence and locking of the controllers.           *)
(***************************************************************************)
Last == hist.last

\* the State the controller of the last operation holds
LastState == heap[ctl[Last.c].m_state]

NoDuplicates(seq) == \A i, j \in DOMAIN seq : seq[i] = seq[j] => i = j

\* C1: a load_image(name) that directly follows a successful load_image(name)
\* on the same controller returns true and adds no host-view segment (an
\* entry of regions_mapped_into_memory is added only together with one).
C1_SecondLoadImageReturnsTrue ==
    (Last.op = "load_image" /\ Last.repeat) =>
        /\ Last.result
        /\ Last.segsAdded = 0

\* a load_image repeated right after a successful one has returned
C1_Witness == Last.op = "load_image" /\ Last.repeat /\ ~hist.aborted

\* C2: load_section_at on an address inside a region that is already loaded
\* returns true and adds no segment; no region has two host-view segments or
\* two entries in regions_mapped_into_memory.
C2_SegmentAddedOnce ==
    /\ (Last.op = "load_section_at" /\ Last.targetLoaded) =>
          Last.result /\ Last.segsAdded = 0
    /\ NoDuplicates(view.segments)
    /\ Last.op = "load_section_at" =>
          NoDuplicates([ i \in DOMAIN LastState.regionsMappedIntoMemory |->
                           LastState.regionsMappedIntoMemory[i].start ])

\* load_section_at has returned for an address in an already loaded region
C2_Witness == Last.op = "load_section_at" /\ Last.targetLoaded /\ ~hist.aborted

\* C3: every construction completes; a construction on a view whose saved
\* State is Loaded does not run initial load and yields view_state = Loaded
\* with the saved images, backing_caches and image_starts; the first
\* construction on a view leaves view_state = Loaded.
C3_ConstructionCompletesLoaded ==
    Last.op = "construct" =>
        /\ ~hist.aborted
        /\ ctl[Last.c].m_metadataValid =>
              /\ ~IsSome(Last.savedBefore) => LastState.viewState = "Loaded"
              /\ (IsSome(Last.savedBefore) /\ Get(Last.savedBefore).viewState = "Loaded") =>
                    /\ ~Last.initialLoadRan
                    /\ LastState.viewState = "Loaded"
                    /\ LastState.images = Get(Last.savedBefore).images
                    /\ LastState.backingCaches = Get(Last.savedBefore).backingCaches
                    /\ LastState.imageStarts = Get(Last.savedBefore).imageStarts

\* a constructor has run to its end on a view nothing was saved on
C3_Witness == Last.op = "construct" /\ ~IsSome(Last.savedBefore)

\* C4: Load(Store(state)) = state for every State a controller or the view
\* holds.
C4_RoundTrip ==
    \A i \in DOMAIN heap : Load(Store(heap[i])) = Some(heap[i])

\* a State after initial load with a loaded region whose header is initialized
C4_Witness ==
    \E i \in DOMAIN heap :
        /\ heap[i].backingCaches # <<>>
        /\ \E k \in DOMAIN heap[i].images :
             \E r \in DOMAIN heap[i].images[k].regions :
                /\ heap[i].images[k].regions[r].loaded
                /\ heap[i].images[k].regions[r].headerInitialized

\* C5: every write to a State snapshot and every installation of the cached
\* snapshot happens while the writer holds the mutation lock.  (The
\* initialisation of the controller's own fresh State in
\* DeserializeFromRawView is left out: nothing else can see that State.)
C5_WritesUnderLock ==
    \A e \in Last.writes : e.site # "DeserializeFromRawView" => e.locked

\* the constructor has written and saved after lock.unlock()
C5_Witness ==
    /\ Last.op = "construct"
    /\ \E e \in Last.writes : e.site = "SaveToDSCView" /\ ~e.locked

\* the last operation was a mutating one and has returned true; of the
\* constructions, those that ran initial load
MutatingOperationReturned ==
    /\ \/ Last.op \in {"load_image", "load_section_at", "load_all_symbols_and_wait"}
       \/ Last.op = "construct" /\ Last.initialLoadRan
    /\ Last.result
    /\ ~hist.aborted

\* C6: when a mutating operation returns true, the cached snapshot and the
\* stored metadata hold the symbol-info and export-info entries of the
\* controller's State.
C6_RecordedIsPersisted ==
    MutatingOperationReturned =>
        /\ vs.cachedState # 0
        /\ heap[vs.cachedState].symbolInfos = LastState.symbolInfos
        /\ heap[vs.cachedState].exportInfos = LastState.exportInfos
        /\ IsSome(view.metadata)
        /\ IsSome(Load(Get(view.metadata)))
        /\ Get(Load(Get(view.metadata))).symbolInfos = LastState.symbolInfos
        /\ Get(Load(Get(view.metadata))).exportInfos = LastState.exportInfos

\* load_image has returned true with symbol-info entries for the image in
\* the controller's State
C6_Witness ==
    /\ Last.op = "load_image" /\ Last.result /\ ~hist.aborted
    /\ \E i \in DOMAIN LastState.images :
          /\ LastState.images[i].installName = Last.name
          /\ MapHas(LastState.symbolInfos, LastState.images[i].headerLocation)

\* C11: a construction on a view whose persisted metadata has another
\* metadataVersion (or none) runs initial load again and does not leave the
\* controller Unloaded.
C11_StaleMetadataReloads ==
    (Last.op = "construct" /\ Last.metadataStale) =>
        /\ ~hist.aborted
        /\ Last.initialLoadRan
        /\ LastState.viewState # "Unloaded"

\* a constructor has returned on a view with metadata of another version
C11_Witness == Last.op = "construct" /\ Last.metadataStale /\ ~hist.aborted

\* C12: load_image with an install name that no image of the State has
\* returns false without ending the process, adds no host-view segment and
\* opens no undo bracket.
C12_UnknownNameReturnsFalse ==
    (Last.op = "load_image" /\ Last.unknownName) =>
        /\ ~hist.aborted
        /\ ~Last.result
        /\ Last.segsAdded = 0
        /\ Last.undoOpened = 0

\* load_image was called with a name that no image has
C12_Witness == Last.op = "load_image" /\ Last.unknownName /\ Last.name = UnknownName

\* C13: every undo bracket that load_image opens with BeginUndoActions is
\* committed before load_image returns, whatever it returns.
C13_UndoBracketCommitted ==
    (Last.op = "load_image" /\ ~hist.aborted) => Last.undoOpened = 0

\* load_image has opened a bracket, loaded regions and returned true
C13_Witness ==
    Last.op = "load_image" /\ Last.result /\ Last.segsAdded > 0 /\ ~hist.aborted

(***************************************************************************)
(* C7: slide rewriting is idempotent.                                      *)
(***************************************************************************)
RunsOf == sr.runs

SupportedVersions == {2, 3, 5}

\* the records of the accessor's file that the rewriter looks at
LocatedRecords ==
    IF sr.file.legacy THEN << sr.file.legacyInfo >>
    ELSE SelectSeq(sr.file.entries, LAMBDA e : e.offsetNonZero /\ e.sizeNonZero)

\* every structural read of the file succeeds
StructureReadable ==
    sr.file.headerOk /\ \A k \in DOMAIN LocatedRecords : LocatedRecords[k].readable

\* C14: on a file with a slide-info record of a version outside {2, 3, 5},
\* located the legacy or the modern way, the first run returns, sets
\* slide_applied and has rewritten the chain of every other record.
C14_UnsupportedVersionSkipped ==
    (/\ Len(RunsOf) >= 1
     /\ StructureReadable
     /\ \E k \in DOMAIN LocatedRecords : LocatedRecords[k].version \notin SupportedVersions) =>
        /\ RunsOf[1].outcome = "returned"
        /\ RunsOf[1].flagAfter
        /\ \A k \in DOMAIN LocatedRecords :
              (/\ LocatedRecords[k].version \in SupportedVersions
               /\ LocatedRecords[k].pageStarts[1] # NoRebase) =>
                 \E i \in DOMAIN RunsOf[1].writes :
                     RunsOf[1].writes[i][1] = LocatedRecords[k].pageStarts[1]

\* a run on a modern file with a version-4 record and a rewritten v2 record
C14_Witness ==
    /\ Len(RunsOf) >= 1
    /\ ~sr.file.legacy
    /\ StructureReadable
    /\ \E k \in DOMAIN LocatedRecords : LocatedRecords[k].version = 4
    /\ \E k \in DOMAIN LocatedRecords :
          LocatedRecords[k].version = 2 /\ LocatedRecords[k].pageStarts[1] # NoRebase
    /\ RunsOf[1].outcome = "returned"
    /\ RunsOf[1].writes # <<>>

\* the rewrites ws follow one v3 chain of the page at file offset 0 that
\* starts at pointer start: each entry is rewritten as the claim says, the
\* next entry lies offsetToNextPointer pointers further, and the chain ends
\* with an entry whose offsetToNextPointer is 0 (or at the end of the file)
IsV3ChainOf(ws, bytes, authValueAdd, start) ==
    /\ ws # <<>>
    /\ ws[1][1] = start
    /\ \A i \in DOMAIN ws :
          LET w == bytes[ws[i][1]]
          IN /\ ws[i][2] = IF WordAuth(w) = 1
                           THEN (authValueAdd + WordPayload(w)) % WordMod
                           ELSE PlainValueV3(WordPayload(w))
             /\ IF i < Len(ws)
                THEN WordNext(w) # 0 /\ ws[i + 1][1] = ws[i][1] + WordNext(w)
                ELSE WordNext(w) = 0 \/ ws[i][1] + WordNext(w) \notin DOMAIN bytes

\* the file has one located record, a readable v3 record with a chain
SingleV3Record ==
    /\ StructureReadable
    /\ Len(LocatedRecords) = 1
    /\ LocatedRecords[1].version = 3
    /\ LocatedRecords[1].pageStarts[1] # NoRebase

\* C15: the first run on a file with one v3 record rewrites exactly the
\* entries of the chain: an authenticated entry to the record's
\* auth_value_add plus its offset, a plain entry to its pointer value with
\* the top bits moved up, advancing by offset_to_next_pointer until 0.
C15_V3ChainValues ==
    (Len(RunsOf) >= 1 /\ SingleV3Record) =>
        /\ RunsOf[1].outcome = "returned"
        /\ IsV3ChainOf(RunsOf[1].writes, RunsOf[1].bytesBefore,
                       LocatedRecords[1].valueAdd, LocatedRecords[1].pageStarts[1])

\* the example of a plain entry followed by an authenticated one: two
\* rewrites, at the page start and one pointer further
C15_Witness ==
    /\ Len(RunsOf) >= 1 /\ SingleV3Record
    /\ RunsOf[1].bytesBefore = (0 :> MakeWord(0, 1, 1) @@ 1 :> MakeWord(1, 0, 2))
    /\ LocatedRecords[1].pageStarts[1] = 0
    /\ RunsOf[1].writes = << <<0, 1>>, <<1, 2 + LocatedRecords[1].valueAdd>> >>

(***************************************************************************)
(* Export trie: ReadExportNode on a DataBuffer.  An input "in" holds       *)
(*   in.buffer    the bytes of the trie (offset 0 is the first)            *)
(*   in.endGuard  header.exportTrie.datasize, the length of the buffer     *)
(*   in.textBase, in.sections (sets of attribute names as flags)           *)
(*   in.functions addresses at which the host view has a function          *)
(*   in.oob       what a read at or past the end of the buffer yields:     *)
(*                -1 for a fault, else the byte found there                *)
(*   in.indeterminate  the symbol type that comes out of the test of a     *)
(*                flags variable that was never assigned                   *)
(* A result: outcome "ok", "threw" (ReadException), "fault", or "diverges" *)
(* (the recursion re-enters a node that is still on the call stack, with   *)
(* the same buffer: it never returns), the symbols pushed so far, and      *)
(* pastEnd: the buffer was read at or past its end.                        *)
(***************************************************************************)
ByteAt(in, offset) ==
    IF offset < Len(in.buffer) THEN in.buffer[offset + 1] ELSE in.oob

PastEnd(in, offset) == offset >= Len(in.buffer)

\* readLEB128(p, end, offset): <<result, offset>>, result -1 for "no value"
RECURSIVE readLEB128(_, _, _, _, _)
readLEB128(p, end, offset, result, bit) ==
    IF offset >= end \/ bit > 63 THEN <<-1, offset>>
    ELSE IF p[offset + 1] >= 128
         THEN readLEB128(p, end, offset + 1,
                         IF p[offset + 1] = 128 THEN result
                         ELSE result + (p[offset + 1] % 128) * Pow2(bit),
                         bit + 7)
         ELSE << IF p[offset + 1] = 0 THEN result
                 ELSE result + p[offset + 1] * Pow2(bit),
                 offset + 1 >>

\* readValidULEB128: the caller throws ReadException on -1
readValidULEB128(buffer, cursor) == readLEB128(buffer, Len(buffer), cursor, 0, 0)

TrieResult(outcome, symbols, pastEnd) ==
    [ outcome |-> outcome, symbols |-> symbols, pastEnd |-> pastEnd ]

\* the loop over header.sections: the flags of the last section with
\* s.addr < va < s.addr + s.size, None when the local flags is never assigned
SectionFlagsAt(in, va) ==
    IF \E k \in DOMAIN in.sections :
           in.sections[k].addr < va /\ in.sections[k].addr + in.sections[k].size > va
    THEN Some(in.sections[CHOOSE k \in DOMAIN in.sections :
                 /\ in.sections[k].addr < va /\ in.sections[k].addr + in.sections[k].size > va
                 /\ \A j \in DOMAIN in.sections :
                       (in.sections[j].addr < va
                          /\ in.sections[j].addr + in.sections[j].size > va) => j <= k].flags)
    ELSE None

\* the type of the Symbol that is pushed: symbolType, computed from the
\* functions of the view, is not used for it
SymbolTypeAt(in, va) ==
    IF IsSome(SectionFlagsAt(in, va))
    THEN IF "S_ATTR_PURE_INSTRUCTIONS" \in Get(SectionFlagsAt(in, va))
            \/ "S_ATTR_SOME_INSTRUCTIONS" \in Get(SectionFlagsAt(in, va))
         THEN "FunctionSymbol" ELSE "DataSymbol"
    ELSE in.indeterminate

\* the terminal part of a node, cursor behind terminalSize
ReadTerminal(in, currentText, cursor, symbols) ==
    Bind(readValidULEB128(in.buffer, cursor), LAMBDA flags :
        IF flags[1] = -1 THEN [ threw |-> TRUE, symbols |-> symbols ]
        ELSE IF (flags[1] \div 8) % 2 = 1 THEN [ threw |-> FALSE, symbols |-> symbols ]
        ELSE Bind(readValidULEB128(in.buffer, flags[2]), LAMBDA imageOffset :
            IF imageOffset[1] = -1 THEN [ threw |-> TRUE, symbols |-> symbols ]
            ELSE IF currentText # <<>> /\ in.textBase + imageOffset[1] # 0
            THEN [ threw |-> FALSE,
                   symbols |-> Append(symbols,
                       [ type |-> SymbolTypeAt(in, in.textBase + imageOffset[1]),
                         name |-> currentText,
                         address |-> in.textBase + imageOffset[1] ]) ]
            ELSE [ threw |-> FALSE, symbols |-> symbols ]))

\* while (buffer[cursor] != 0 & cursor <= endGuard) childText.push_back(...)
RECURSIVE ReadChildText(_, _, _, _)
ReadChildText(in, cursor, childText, pastEnd) ==
    IF PastEnd(in, cursor) /\ in.oob = -1
    THEN [ fault |-> TRUE, cursor |-> cursor, childText |-> childText, pastEnd |-> TRUE ]
    ELSE IF ByteAt(in, cursor) # 0 /\ cursor <= in.endGuard
    THEN ReadChildText(in, cursor + 1, Append(childText, ByteAt(in, cursor)),
                       pastEnd \/ PastEnd(in, cursor))
    ELSE [ fault |-> FALSE, cursor |-> cursor, childText |-> childText,
           pastEnd |-> pastEnd \/ PastEnd(in, cursor) ]

RECURSIVE ReadExportNode(_, _, _, _, _, _)
RECURSIVE ReadChildren(_, _, _, _, _, _, _)

\* childCount = buffer[cursor]; cursor++; the guard comes after the read
ReadChildCount(in, currentText, cursor, ancestors, symbols, pastEnd) ==
    IF PastEnd(in, cursor) /\ in.oob = -1 THEN TrieResult("fault", symbols, TRUE)
    ELSE IF cursor + 1 > in.endGuard
    THEN TrieResult("threw", symbols, pastEnd \/ PastEnd(in, cursor))
    ELSE ReadChildren(in, currentText, cursor + 1, ByteAt(in, cursor), ancestors,
                      symbols, pastEnd \/ PastEnd(in, cursor))

\* ReadExportNode(symbolList, header, buffer, textBase, currentText, cursor,
\* endGuard); ancestors: the cursors of the calls on the stack
ReadExportNode(in, currentText, cursor, ancestors, symbols, pastEnd) ==
    IF cursor \in ancestors THEN TrieResult("diverges", symbols, pastEnd)
    ELSE IF cursor > in.endGuard THEN TrieResult("threw", symbols, pastEnd)
    ELSE Bind(readValidULEB128(in.buffer, cursor), LAMBDA terminalSize :
        IF terminalSize[1] = -1 THEN TrieResult("threw", symbols, pastEnd)
        ELSE Bind(IF terminalSize[1] # 0
                  THEN ReadTerminal(in, currentText, terminalSize[2], symbols)
                  ELSE [ threw |-> FALSE, symbols |-> symbols ], LAMBDA t :
            IF t.threw THEN TrieResult("threw", t.symbols, pastEnd)
            ELSE ReadChildCount(in, currentText, terminalSize[2] + terminalSize[1],
                                ancestors \cup {cursor}, t.symbols, pastEnd)))

\* the loop over the children of a node, remaining of them still to read
ReadChildren(in, currentText, cursor, remaining, ancestors, symbols, pastEnd) ==
    IF remaining = 0 THEN TrieResult("ok", symbols, pastEnd)
    ELSE Bind(ReadChildText(in, cursor, <<>>, pastEnd), LAMBDA label :
        IF label.fault THEN TrieResult("fault", symbols, TRUE)
        ELSE IF label.cursor + 1 > in.endGuard
        THEN TrieResult("threw", symbols, label.pastEnd)
        ELSE Bind(readValidULEB128(in.buffer, label.cursor + 1), LAMBDA next :
            IF next[1] = -1 \/ next[1] = 0 THEN TrieResult("threw", symbols, label.pastEnd)
            ELSE Bind(ReadExportNode(in, currentText \o label.childText, next[1],
                                     ancestors, symbols, label.pastEnd), LAMBDA child :
                IF child.outcome # "ok" THEN child
                ELSE ReadChildren(in, currentText, next[2], remaining - 1, ancestors,
                                  child.symbols, child.pastEnd))))

(***************************************************************************)
(* SpecTrie: one walk of a trie buffer.                                    *)
(***************************************************************************)
\* root with the child "f" at offset 5; the node there is terminal with
\* flags 0 and image offset 3, and has no children
LeafTrie == <<0, 1, 102, 0, 5, 2, 0, 3, 0>>

\* root with the child "f" at offset 5; the node there has the child "f" at
\* offset 5 again
CyclicTrie == <<0, 1, 102, 0, 5, 0, 1, 102, 0, 5>>

\* bytes put in the place of one byte of a trie: small numbers, the
\* REEXPORT flag, a letter, a ULEB128 continuation byte
TrieBytes == {0, 1, 2, 3, 5, 8, 9, 102, 128}

TrieBuffers ==
    UNION { { [b EXCEPT ![i] = v] : i \in DOMAIN b, v \in TrieBytes }
            \cup { SubSeq(b, 1, k) : k \in 0 .. Len(b) } : b \in {LeafTrie, CyclicTrie} }

TrieTextBase == 16

TrieSection(addr, size, flags) == [ addr |-> addr, size |-> size, flags |-> flags ]

\* no section; a section around text base + 3 without and with instruction
\* attributes; a section that starts at text base + 3
TrieSections ==
    { <<>>,
      << TrieSection(TrieTextBase, 8, {}) >>,
      << TrieSection(TrieTextBase, 8, {"S_ATTR_PURE_INSTRUCTIONS"}) >>,
      << TrieSection(TrieTextBase, 8, {"S_ATTR_SOME_INSTRUCTIONS"}) >>,
      << TrieSection(TrieTextBase + 3, 4, {"S_ATTR_PURE_INSTRUCTIONS"}) >> }

OutOfBoundsReads == {-1, 0, 1}

InitTrie ==
    /\ trie \in { [ buffer |-> b, endGuard |-> Len(b), textBase |-> TrieTextBase,
                    sections |-> ss, functions |-> fs, result |-> None ] :
                  b \in TrieBuffers, ss \in TrieSections,
                  fs \in { {}, {TrieTextBase + 3} } }
    /\ ctp = NoValue /\ sr = NoValue /\ heap = NoValue /\ ctl = NoValue
    /\ vs = NoValue /\ view = NoValue /\ hist = NoValue /\ sem = NoValue /\ hdr = NoValue

\* ParseExportTrie: ReadExportNode(symbols, header, buffer, header.textBase,
\* "", 0, header.exportTrie.datasize)
TrieWalk ==
    /\ trie.result = None
    /\ \E oob \in OutOfBoundsReads, ind \in {"FunctionSymbol", "DataSymbol"} :
         trie' = [trie EXCEPT !.result =
                    Some(ReadExportNode([ buffer |-> trie.buffer, endGuard |-> trie.endGuard,
                                          textBase |-> trie.textBase,
                                          sections |-> trie.sections,
                                          functions |-> trie.functions,
                                          oob |-> oob, indeterminate |-> ind ],
                                        <<>>, 0, {}, <<>>, FALSE))]
    /\ UNCHANGED <<ctp, sr, heap, ctl, vs, view, hist, sem, hdr>>

NextTrie == TrieWalk

SpecTrie == InitTrie /\ [][NextTrie]_vars

\* the result of the walk and the trie that was walked
Walked == IsSome(trie.result)

WalkResult == Get(trie.result)

\* C16: the walk of every trie buffer ends, with a return or a read error,
\* without a read of the buffer at or past its end; a child with
\* next-offset 0 gives a read error.
C16_TrieWalkBounded ==
    Walked =>
        /\ WalkResult.outcome \in {"ok", "threw"}
        /\ ~WalkResult.pastEnd
        /\ trie.buffer = [LeafTrie EXCEPT ![5] = 0] => WalkResult.outcome = "threw"

\* the walk of a trie whose only child has next-offset 0 has raised
C16_Witness ==
    Walked /\ trie.buffer = [LeafTrie EXCEPT ![5] = 0] /\ WalkResult.outcome = "threw"

\* the kind the walker is to give a symbol at va: Function if the view has
\* a function there, else by the attributes of the section that contains va
ExpectedSymbolType(va) ==
    IF va \in trie.functions THEN "FunctionSymbol"
    ELSE IF \E k \in DOMAIN trie.sections :
               /\ trie.sections[k].addr <= va
               /\ va < trie.sections[k].addr + trie.sections[k].size
               /\ trie.sections[k].flags # {}
         THEN "FunctionSymbol" ELSE "DataSymbol"

\* C17: the walk of the trie with the one leaf "f" at image offset 3 emits
\* exactly (text_base + 3, kind, "f"), kind being Function if the view has a
\* function at that address and else Function or Data by the attributes of
\* the containing section.
C17_LeafSymbolKind ==
    (Walked /\ trie.buffer = LeafTrie) =>
        /\ WalkResult.outcome = "ok"
        /\ WalkResult.symbols =
              << [ type |-> ExpectedSymbolType(trie.textBase + 3),
                   name |-> <<102>>,
                   address |-> trie.textBase + 3 ] >>

\* the leaf trie was walked on a view with a function at the leaf's address
C17_Witness ==
    /\ Walked /\ trie.buffer = LeafTrie
    /\ trie.textBase + 3 \in trie.functions
    /\ Len(WalkResult.symbols) = 1
    /\ WalkResult.symbols[1].address = trie.textBase + 3

(***************************************************************************)
(* SpecSem: counting_semaphore (VM.h), constructed with SemCap permits and *)
(* used by SemThreads. Every member function runs under mutex_, so each is *)
(* one step; acquire() that finds its predicate false waits on cv_ and is  *)
(* a second step when it is woken (or wakes spuriously) with the predicate *)
(* true.                                                                   *)
(***************************************************************************)
SemCap == 2
SemThreads == {1, 2, 3}
MaxSemOps == 5

\* acquire(): cv_.wait(lock, [this]() { return count_ > 0; })
AcquirePredicate_Always(count) == TRUE
AcquirePredicate(count) == count > 0

RECURSIVE SumHeld(_, _)
SumHeld(held, threads) ==
    IF threads = {} THEN 0
    ELSE LET t == CHOOSE x \in threads : TRUE
         IN  held[t] + SumHeld(held, threads \ {t})

HeldPermits == SumHeld(sem.held, SemThreads)

\* explicit counting_semaphore(int count) : count_(count)
InitSem ==
    /\ sem = [ count |-> SemCap,
               pc |-> [t \in SemThreads |-> "idle"],
               held |-> [t \in SemThreads |-> 0],
               issuedAt |-> [t \in SemThreads |-> 0],
               calls |-> 0,
               releases |-> 0,
               lastAcquire |-> None,
               lastTry |-> None ]
    /\ ctp = NoValue /\ sr = NoValue /\ heap = NoValue /\ ctl = NoValue
    /\ vs = NoValue /\ view = NoValue /\ hist = NoValue /\ trie = NoValue /\ hdr = NoValue

\* acquire(), the predicate true at the call: --count_ and return
SemAcquire(t) ==
    /\ sem.pc[t] = "idle" /\ sem.calls < MaxSemOps
    /\ AcquirePredicate(sem.count)
    /\ sem' = [sem EXCEPT !.count = @ - 1, !.held[t] = @ + 1, !.calls = @ + 1,
                          !.lastAcquire = Some([ thread |-> t,
                                                 freeAtCall |-> sem.count > 0,
                                                 issuedAt |-> sem.releases,
                                                 returnedAt |-> sem.releases ])]
    /\ UNCHANGED <<ctp, sr, heap, ctl, vs, view, hist, trie, hdr>>

\* acquire(), the predicate false at the call: wait on cv_
SemAcquireWait(t) ==
    /\ sem.pc[t] = "idle" /\ sem.calls < MaxSemOps
    /\ ~AcquirePredicate(sem.count)
    /\ sem' = [sem EXCEPT !.pc[t] = "waiting", !.issuedAt[t] = sem.releases,
                          !.calls = @ + 1]
    /\ UNCHANGED <<ctp, sr, heap, ctl, vs, view, hist, trie, hdr>>

\* acquire(), woken with the predicate true: --count_ and return
SemAcquireWake(t) ==
    /\ sem.pc[t] = "waiting"
    /\ AcquirePredicate(sem.count)
    /\ sem' = [sem EXCEPT !.count = @ - 1, !.held[t] = @ + 1, !.pc[t] = "idle",
                          !.lastAcquire = Some([ thread |-> t,
                                                 freeAtCall |-> FALSE,
                                                 issuedAt |-> sem.issuedAt[t],
                                                 returnedAt |-> sem.releases ])]
    /\ UNCHANGED <<ctp, sr, heap, ctl, vs, view, hist, trie, hdr>>

\* try_acquire()
SemTryAcquire(t) ==
    /\ sem.pc[t] = "idle" /\ sem.calls < MaxSemOps
    /\ IF sem.count > 0
       THEN sem' = [sem EXCEPT !.count = @ - 1, !.held[t] = @ + 1, !.calls = @ + 1,
                               !.lastTry = Some([thread |-> t, result |-> TRUE])]
       ELSE sem' = [sem EXCEPT !.calls = @ + 1,
                               !.lastTry = Some([thread |-> t, result |-> FALSE])]
    /\ UNCHANGED <<ctp, sr, heap, ctl, vs, view, hist, trie, hdr>>

\* release(1), by a thread for a permit it holds
SemRelease(t) ==
    /\ sem.pc[t] = "idle" /\ sem.held[t] > 0
    /\ sem' = [sem EXCEPT !.count = @ + 1, !.held[t] = @ - 1, !.releases = @ + 1]
    /\ UNCHANGED <<ctp, sr, heap, ctl, vs, view, hist, trie, hdr>>

NextSem ==
    \E t \in SemThreads :
        \/ SemAcquire(t)
        \/ SemAcquireWait(t)
        \/ SemAcquireWake(t)
        \/ SemTryAcquire(t)
        \/ SemRelease(t)

SpecSem == InitSem /\ [][NextSem]_vars

\* C20: the permits held together never exceed the cap, the counter is never
\* negative, and an acquire called when no permit was free returns only
\* after a release made after the call.
C20_SemaphoreBounded ==
    /\ HeldPermits <= SemCap
    /\ sem.count >= 0
    /\ sem.count + HeldPermits = SemCap
    /\ IsSome(sem.lastAcquire) =>
          (~Get(sem.lastAcquire).freeAtCall =>
               Get(sem.lastAcquire).returnedAt > Get(sem.lastAcquire).issuedAt)

\* all permits are held, a blocked acquire has returned after a release and a
\* try_acquire has failed
C20_Witness ==
    /\ HeldPermits = SemCap /\ sem.count = 0
    /\ IsSome(sem.lastAcquire) /\ ~Get(sem.lastAcquire).freeAtCall
    /\ Get(sem.lastAcquire).returnedAt > Get(sem.lastAcquire).issuedAt
    /\ IsSome(sem.lastTry) /\ ~Get(sem.lastTry).result

(***************************************************************************)
(* SpecHdr: LoadHeaderForAddress on images with and without defects, and   *)
(* the loop of PerformInitialLoad over imageStarts on the same images.     *)
(***************************************************************************)
LibB == <<"usr", "lib", <<"libB.dylib">> >>

\* the images of the cache: their addresses and install names
HdrAddresses == 1 .. 3
HdrName(a) == CASE a = 1 -> LibSystemC [] a = 2 -> LibA [] OTHER -> LibB

\* "unmapped": the address is in no mapped range; "truncated": the mapped
\* range ends after the first load command
HdrImageKinds ==
    {"good", "badMagic", "smallCmdsize", "fileset", "unmapped", "truncated"}

HdrGoodMachO(a) ==
    MachO(<< SegmentCommand("LC_SEGMENT_64", "__TEXT", a, 1),
             OtherCommand("LC_SYMTAB", 1) >>)

HdrMachO(kind, a) ==
    CASE kind = "badMagic" -> [HdrGoodMachO(a) EXCEPT !.magicOk = FALSE]
      [] kind = "smallCmdsize" -> [HdrGoodMachO(a) EXCEPT !.cmds[2].cmdsizeOk = FALSE]
      [] kind = "fileset" ->
            MachO(<< SegmentCommand("LC_SEGMENT_64", "__TEXT", a, 1),
                     OtherCommand("LC_FILESET_ENTRY", 0) >>)
      [] kind = "truncated" -> [HdrGoodMachO(a) EXCEPT !.mappedCmds = 1]
      [] OTHER -> HdrGoodMachO(a)

HdrStarts == [a \in HdrAddresses |-> <<HdrName(a), a>>]

InitHdr ==
    /\ hdr \in { [ kinds |-> k,
                   machos |-> [a \in {x \in HdrAddresses : k[x] # "unmapped"} |->
                                  HdrMachO(k[a], a)],
                   returned |-> [a \in HdrAddresses |-> None],
                   load |-> None ] :
                 k \in [HdrAddresses -> HdrImageKinds] }
    /\ ctp = NoValue /\ sr = NoValue /\ heap = NoValue /\ ctl = NoValue
    /\ vs = NoValue /\ view = NoValue /\ hist = NoValue
    /\ trie = NoValue /\ sem = NoValue

\* a call of LoadHeaderForAddress for the image at a
HdrLoadHeader(a) ==
    /\ hdr.returned[a] = None
    /\ hdr' = [hdr EXCEPT !.returned[a] =
                  Some(LoadHeaderForAddress(hdr.machos, a, HdrName(a)))]
    /\ UNCHANGED <<ctp, sr, heap, ctl, vs, view, hist, trie, sem>>

\* the loop of PerformInitialLoad over imageStarts
HdrInitialLoad ==
    /\ hdr.load = None
    /\ hdr' = [hdr EXCEPT !.load =
                  Some(LoadImageHeaders([EmptyState EXCEPT !.imageStarts = HdrStarts],
                                        HdrStarts, hdr.machos))]
    /\ UNCHANGED <<ctp, sr, heap, ctl, vs, view, hist, trie, sem>>

NextHdr ==
    \/ \E a \in HdrAddresses : HdrLoadHeader(a)
    \/ HdrInitialLoad

SpecHdr == InitHdr /\ [][NextHdr]_vars

\* the addresses of the images without defect, in the order of imageStarts
GoodAddresses == SelectSeq([a \in HdrAddresses |-> a], LAMBDA a : hdr.kinds[a] = "good")

\* C18: LoadHeaderForAddress returns no header for an image with a bad
\* magic, a cmdsize below sizeof(load_command), an LC_FILESET_ENTRY or a read
\* outside the mapped ranges, and a whole header otherwise; the loop of
\* initial load ends normally with exactly the images without defect.
C18_DefectiveImageSkipped ==
    /\ \A a \in HdrAddresses :
          IsSome(hdr.returned[a]) =>
              /\ Get(hdr.returned[a]).outcome = "returned"
              /\ hdr.kinds[a] # "good" => Get(hdr.returned[a]).header = None
              /\ hdr.kinds[a] = "good" =>
                    /\ IsSome(Get(hdr.returned[a]).header)
                    /\ Len(Get(Get(hdr.returned[a]).header).segments) = 1
                    /\ Get(Get(hdr.returned[a]).header).symtabSymoff = 1
    /\ IsSome(hdr.load) =>
          /\ Get(hdr.load).outcome = "ok"
          /\ [i \in DOMAIN Get(hdr.load).state.images |->
                 Get(hdr.load).state.images[i].headerLocation] = GoodAddresses
          /\ [i \in DOMAIN Get(hdr.load).state.headers |->
                 Get(hdr.load).state.headers[i][1]] = GoodAddresses

\* the first image has a bad magic, the second reads outside the mapped
\* ranges, the third is whole, and both operations have run
C18_Witness ==
    /\ hdr.kinds = <<"badMagic", "truncated", "good">>
    /\ IsSome(hdr.load)
    /\ \A a \in HdrAddresses : IsSome(hdr.returned[a])
    /\ Get(hdr.returned[1]) = HeaderReturned(None)

(***************************************************************************)
(* The ".symbols" sub-cache in initial load (SpecCTP).                     *)
(***************************************************************************)
SymbolsPath == FilePath("symbols", 0, "")

LoadedBackingCaches == Get(ctp.load).state.backingCaches

\* C19: in every format initial load completes when the ".symbols" file is
\* absent, with the primary and the sub-caches as backing caches, and when
\* the file is present it is among the backing caches, not primary, with its
\* path and mappings.
C19_SymbolsSubcacheOptional ==
    IsSome(ctp.load) =>
        /\ Get(ctp.load).outcome = "ok"
        /\ ~ctp.disk.symbolsExists =>
              /\ \A i \in DOMAIN LoadedBackingCaches :
                     LoadedBackingCaches[i].path # SymbolsPath
              /\ Len(LoadedBackingCaches) =
                     1 + Len(SubCachePaths(Get(ctp.load).state.cacheFormat,
                                           ReadPrimaryHeader(ctp.disk.raw), ctp.disk))
        /\ ctp.disk.symbolsExists =>
              \E i \in DOMAIN LoadedBackingCaches :
                  LoadedBackingCaches[i] =
                      BackingCache(FALSE, SymbolsPath, ctp.disk.symbolsMappings)

\* an iOS16 cache with a ".symbols" file was loaded and the file is the last
\* backing cache
C19_Witness ==
    /\ IsSome(ctp.load) /\ Get(ctp.load).outcome = "ok"
    /\ Get(ctp.load).state.cacheFormat = "iOS16"
    /\ ctp.disk.symbolsExists
    /\ LoadedBackingCaches[Len(LoadedBackingCaches)] =
           BackingCache(FALSE, SymbolsPath, ctp.disk.symbolsMappings)

(***************************************************************************)
(* C21: WillMutateState, on the world a loading handler hands to it (the   *)
(* lock taken and DeserializeFromRawView done).                            *)
(***************************************************************************)
BeforeWillMutate(c) == DeserializeFromRawView(Lock(World, c), c)

AfterWillMutate(c) == WillMutateState(BeforeWillMutate(c), c)

\* C21: after WillMutateState the controller's State is unshared, no other
\* controller and not the view's cached state, and has the contents it had
\* before; the cached state and every State that existed are unmodified; a
\* second call changes nothing.
C21_WillMutateUniqueIdempotent ==
    \A c \in Controllers :
        ctl[c].pc = "ready" =>
            /\ ~AfterWillMutate(c).ctl[c].m_stateIsShared
            /\ AfterWillMutate(c).ctl[c].m_state # 0
            /\ AfterWillMutate(c).ctl[c].m_state # AfterWillMutate(c).vs.cachedState
            /\ \A k \in Controllers \ {c} :
                   AfterWillMutate(c).ctl[k].m_state # AfterWillMutate(c).ctl[c].m_state
            /\ BeforeWillMutate(c).ctl[c].m_state # 0 =>
                   StateOf(AfterWillMutate(c), c) = StateOf(BeforeWillMutate(c), c)
            /\ AfterWillMutate(c).vs = BeforeWillMutate(c).vs
            /\ \A i \in DOMAIN BeforeWillMutate(c).heap :
                   AfterWillMutate(c).heap[i] = BeforeWillMutate(c).heap[i]
            /\ WillMutateState(AfterWillMutate(c), c) = AfterWillMutate(c)

\* a controller holds the view's cached state, shared, and WillMutateState
\* gives it a new object with the same contents
C21_Witness ==
    \E c \in Controllers :
        /\ ctl[c].pc = "ready"
        /\ vs.cachedState # 0
        /\ BeforeWillMutate(c).ctl[c].m_state = vs.cachedState
        /\ BeforeWillMutate(c).ctl[c].m_stateIsShared
        /\ AfterWillMutate(c).ctl[c].m_state = Len(heap) + 1
        /\ StateOf(AfterWillMutate(c), c) = heap[vs.cachedState]
        /\ Last.op = "load_image" /\ Last.result

(***************************************************************************)
(* SpecSeg: LoadHeaderForAddress on headers made of segment commands.      *)
(***************************************************************************)
MaxSegCmds == 3

SegCmdKinds == {"LC_SEGMENT", "LC_SEGMENT_64"}

SegNames == {"__TEXT", "__LINKEDIT", "__LINKEDIT_X"}

SegHeaders ==
    UNION { [ 1 .. n -> { SegmentCommand(k, name, 1, 1) : k \in SegCmdKinds, name \in SegNames } ] :
            n \in 1 .. MaxSegCmds }

InitSeg ==
    /\ hdr \in { [ cmds |-> cs, parsed |-> None ] : cs \in SegHeaders }
    /\ ctp = NoValue /\ sr = NoValue /\ heap = NoValue /\ ctl = NoValue
    /\ vs = NoValue /\ view = NoValue /\ hist = NoValue
    /\ trie = NoValue /\ sem = NoValue

\* a call of LoadHeaderForAddress for the image whose header holds hdr.cmds
SegLoadHeader ==
    /\ hdr.parsed = None
    /\ hdr' = [hdr EXCEPT !.parsed =
                  Some(LoadHeaderForAddress([a \in {1} |-> MachO(hdr.cmds)], 1, LibA))]
    /\ UNCHANGED <<ctp, sr, heap, ctl, vs, view, hist, trie, sem>>

NextSeg == SegLoadHeader

SpecSeg == InitSeg /\ [][NextSeg]_vars

\* C23: for every successfully parsed header, linkeditPresent holds exactly
\* when the header has a segment named exactly __LINKEDIT, whether it came
\* as LC_SEGMENT or as LC_SEGMENT_64, and linkeditSegment is that segment.
C23_LinkeditPresentIffSegment ==
    (IsSome(hdr.parsed) /\ IsSome(Get(hdr.parsed).header)) =>
        LET header == Get(Get(hdr.parsed).header)
        IN /\ header.linkeditPresent <=>
                 \E i \in DOMAIN header.segments : header.segments[i].segname = "__LINKEDIT"
           /\ header.linkeditPresent =>
                 /\ header.linkeditSegment.segname = "__LINKEDIT"
                 /\ \E i \in DOMAIN header.segments :
                       header.segments[i] = header.linkeditSegment

\* a parsed header whose only __LINKEDIT segment came as LC_SEGMENT
C23_Witness ==
    /\ IsSome(hdr.parsed) /\ IsSome(Get(hdr.parsed).header)
    /\ \E i \in DOMAIN hdr.cmds :
          hdr.cmds[i].cmd = "LC_SEGMENT" /\ hdr.cmds[i].segname = "__LINKEDIT"
    /\ \A i \in DOMAIN hdr.cmds :
          hdr.cmds[i].cmd = "LC_SEGMENT_64" => hdr.cmds[i].segname = "__TEXT"
    /\ Len(Get(Get(hdr.parsed).header).segments) = Len(hdr.cmds)
    /\ ~Get(Get(hdr.parsed).header).linkeditPresent

(***************************************************************************)
(* SpecFS: the function-starts loop of InitializeHeader.                   *)
(***************************************************************************)
MaxStarts == 3

\* the region of regionsToLoad test of the loop: curfunc lies in a region
\* whose headerInitialized is still false
AddFunction(regionsToLoad, curfunc) ==
    \E k \in DOMAIN regionsToLoad :
        /\ curfunc >= regionsToLoad[k].start
        /\ curfunc < regionsToLoad[k].start + regionsToLoad[k].size
        /\ ~regionsToLoad[k].headerInitialized

\* while (i < funcsize): the targets passed to AddFunctionForAnalysis, in
\* order.  A value of -1 from readLEB128 is added like any other (the sum
\* wraps in 64 bits).
RECURSIVE FunctionStarts(_, _, _, _, _)
FunctionStarts(funcStarts, regionsToLoad, i, curfunc, targets) ==
    IF i >= Len(funcStarts) THEN targets
    ELSE LET r == readLEB128(funcStarts, Len(funcStarts), i, 0, 0)
         IN  IF r[1] = 0 \/ ~AddFunction(regionsToLoad, curfunc)
             THEN FunctionStarts(funcStarts, regionsToLoad, r[2], curfunc, targets)
             ELSE FunctionStarts(funcStarts, regionsToLoad, r[2], curfunc + r[1],
                                 Append(targets, curfunc + r[1]))

FsBytes == 0 .. 3

FsRegions ==
    { << >>,
      << MemoryRegion(<<"libA", <<"__TEXT">> >>, 0, 2, {"R", "X"}) >>,
      << MemoryRegion(<<"libA", <<"__DATA">> >>, 4, 2, {"R"}) >>,
      << MemoryRegion(<<"libA", <<"__TEXT">> >>, 0, 2, {"R", "X"}),
         MemoryRegion(<<"libA", <<"__DATA">> >>, 4, 2, {"R"}) >> }

InitFS ==
    /\ hdr \in { [ funcStarts |-> b, regionsToLoad |-> rs, textBase |-> 0, requested |-> None ] :
                 b \in UNION { [ 1 .. n -> FsBytes ] : n \in 0 .. MaxStarts },
                 rs \in FsRegions }
    /\ ctp = NoValue /\ sr = NoValue /\ heap = NoValue /\ ctl = NoValue
    /\ vs = NoValue /\ view = NoValue /\ hist = NoValue
    /\ trie = NoValue /\ sem = NoValue

\* the function-starts part of one call of InitializeHeader
FsApply ==
    /\ hdr.requested = None
    /\ hdr' = [hdr EXCEPT !.requested =
                  Some(FunctionStarts(hdr.funcStarts, hdr.regionsToLoad, 0, hdr.textBase, << >>))]
    /\ UNCHANGED <<ctp, sr, heap, ctl, vs, view, hist, trie, sem>>

NextFS == FsApply

SpecFS == InitFS /\ [][NextFS]_vars

\* the address after the first k deltas, every delta added
AccumulatedStart(k) == hdr.textBase + SeqSum(SubSeq(hdr.funcStarts, 1, k))

\* C24: function analysis is requested at exactly the addresses obtained by
\* accumulating the deltas from textBase that fall inside a newly loaded
\* region, the running address advancing by every delta.
C24_FunctionStartsRequested ==
    IsSome(hdr.requested) =>
        Range(Get(hdr.requested)) =
            { AccumulatedStart(k) : k \in { j \in DOMAIN hdr.funcStarts :
                  /\ hdr.funcStarts[j] # 0
                  /\ AddFunction(hdr.regionsToLoad, AccumulatedStart(j)) } }

\* __TEXT [0, 2) is newly loaded and the deltas 3, 1 lead to 3 and 4, both
\* outside it: the loop has run and has requested address 3
C24_Witness ==
    /\ IsSome(hdr.requested)
    /\ hdr.funcStarts = <<3, 1>>
    /\ Len(hdr.regionsToLoad) = 1 /\ hdr.regionsToLoad[1].start = 0
    /\ Get(hdr.requested) = <<3>>

(***************************************************************************)
(* C22 on SpecRace                                                         *)
(***************************************************************************)
\* what one call alone leaves in the mapped pages
SingleRunBytes ==
    ParseAndApplySlideInfoForFile(sr.file, sr.initial, FALSE,
                                  SlideBase(SlideBackingCaches, WordMod - 1)).bytes

BothRanToTheEnd ==
    \A t \in RaceThreads :
        /\ sr.th[t].pc = "done"
        /\ sr.th[t].outcome = "returned"
        /\ ~sr.th[t].sawApplied

\* C22: when two threads run the slide rewriting concurrently on the same
\* accessor, both having seen slide_applied = false, the mapped pages end
\* with the contents that a single run produces.
C22_ConcurrentRunsAsSingleRun ==
    BothRanToTheEnd => sr.bytes = SingleRunBytes

\* both threads saw the flag clear and returned, the second one walked the
\* chain after the first had written its first word, and the pages differ
\* from those of a single run
C22_Witness ==
    /\ BothRanToTheEnd
    /\ \E t \in RaceThreads, u \in RaceThreads :
          /\ t # u
          /\ sr.th[t].collected # <<>>
          /\ sr.th[u].collected # sr.th[t].collected
    /\ sr.bytes # SingleRunBytes

(***************************************************************************)
(* C25 on Spec                                                             *)
(***************************************************************************)
\* C25: on a view that held no metadata at the start, no sequence of
\* constructions, load_image, load_section_at, load_image_containing and
\* load_all_symbols_and_wait reaches MutableState() on a shared snapshot:
\* AssertMutable never aborts.
C25_AssertMutableNeverAborts ==
    hist.noMetadataAtStart => ~hist.aborted

\* the first construction on a view without metadata, without the load of
\* libsystem_c, ran initial load and reached the abort of AssertMutable
C25_Witness ==
    /\ hist.noMetadataAtStart
    /\ Last.op = "construct"
    /\ Last.initialLoadRan
    /\ hist.ops = 1
    /\ hist.aborted

(***************************************************************************)
(* C26 on Spec                                                             *)
(***************************************************************************)
AllRegions(st) ==
    Flatten([ i \in DOMAIN st.images |-> st.images[i].regions ])
        \o st.stubIslandRegions \o st.dyldDataRegions \o st.nonImageRegions

\* the regions the cached state of the view records as loaded
LoadedInCachedState ==
    IF vs.cachedState = 0 THEN {}
    ELSE LET rs == AllRegions(heap[vs.cachedState])
         IN  { <<rs[i].start, rs[i].size>> : i \in { j \in DOMAIN rs : rs[j].loaded } }

\* C26: with several controllers on one view, a region that the cached
\* state records as loaded stays loaded in the cached state after every
\* later operation of any controller (no save of an older snapshot
\* overwrites it), and no host-view segment is added twice.
C26_LoadedStaysLoaded ==
    [][ /\ LoadedInCachedState \subseteq LoadedInCachedState'
        /\ NoDuplicates(view'.segments) ]_vars

\* a controller that held an older snapshot has saved it: the host view has
\* a segment of a region that the cached state no longer records as loaded
C26_Witness ==
    /\ ~hist.aborted
    /\ vs.cachedState # 0
    /\ Last.op = "load_all_symbols_and_wait"
    /\ \E seg \in Range(view.segments) : seg \notin LoadedInCachedState

(***************************************************************************)
(* C27 on Spec                                                             *)
(***************************************************************************)
\* the regions of the image of the last operation whose segments that
\* operation added to the host view
MaterializedByLast ==
    LET added == Range(SubSeq(view.segments, Len(view.segments) - Last.segsAdded + 1,
                              Len(view.segments)))
        image == LastState.images[ImageIndex(LastState, Last.name)]
    IN { k \in DOMAIN image.regions :
            <<image.regions[k].start, image.regions[k].size>> \in added }

\* C27: no write of a handler goes into the State object that is the
\* cached state at that time (the writes after the save inside load_image
\* and load_section_at included), and when load_image has returned true the
\* regions it materialized have headerInitialized = true in the State of
\* the controller.
C27_CachedSnapshotNotModified ==
    /\ \A e \in Last.writes : ~e.intoCached
    /\ (Last.op = "load_image" /\ Last.result /\ ~hist.aborted /\ Last.segsAdded > 0) =>
          \A k \in MaterializedByLast :
              LastState.images[ImageIndex(LastState, Last.name)].regions[k].headerInitialized

\* load_image has returned true after adding a segment: InitializeHeader
\* wrote through its region pointers into the State installed by the save
C27_Witness ==
    /\ Last.op = "load_image" /\ Last.result /\ ~hist.aborted /\ Last.segsAdded > 0
    /\ MaterializedByLast # {}
    /\ \E e \in Last.writes : e.site = "InitializeHeader" /\ e.intoCached
    /\ \E k \in MaterializedByLast :
          /\ ~LastState.images[ImageIndex(LastState, Last.name)].regions[k].headerInitialized
          /\ heap[vs.cachedState].images[ImageIndex(LastState, Last.name)].regions[k].headerInitialized

(***************************************************************************)
(* C28 on Spec                                                             *)
(***************************************************************************)
ViewStateRank(viewState) ==
    CASE viewState = "Unloaded" -> 0
      [] viewState = "Loaded" -> 1
      [] viewState = "LoadedWithImages" -> 2

\* the view state the view holds: that of the cached snapshot, else that
\* of the stored metadata
CachedViewState ==
    IF IsSome(SavedState) THEN Get(SavedState).viewState ELSE "Unloaded"

ImageRegionLoaded(st) ==
    \E i \in DOMAIN st.images : \E k \in DOMAIN st.images[i].regions :
        st.images[i].regions[k].loaded

\* C28: the view state only moves forward, Unloaded -> Loaded ->
\* LoadedWithImages: no operation sets it back, a construction that loaded
\* libsystem_c does not end in Loaded, and the state is LoadedWithImages
\* only if an image region has been materialized.
C28_ViewStateMovesForward ==
    /\ [][ViewStateRank(CachedViewState') >= ViewStateRank(CachedViewState)]_vars
    /\ [](vs.cachedState # 0 =>
            /\ (CachedViewState = "LoadedWithImages" => ImageRegionLoaded(heap[vs.cachedState]))
            /\ (ImageRegionLoaded(heap[vs.cachedState]) /\ Last.op = "construct" /\ ~hist.aborted)
                  => CachedViewState = "LoadedWithImages")

\* a constructor has loaded libsystem_c and has returned: the State it
\* saved has a loaded image region and the view state Loaded
C28_Witness ==
    /\ Last.op = "construct" /\ ~hist.aborted /\ Last.segsAdded > 0
    /\ hist.ops = 2
    /\ vs.cachedState # 0 /\ ctl[Last.c].m_state = vs.cachedState
    /\ ImageRegionLoaded(heap[vs.cachedState])
    /\ CachedViewState = "Loaded"

(***************************************************************************)
(* C29 on Spec                                                             *)
(***************************************************************************)
\* C29: a construction that starts an initial load leaves the load
\* progress at Finished: when the constructor has returned, the progress is
\* Finished on every path, the one where the initial load throws included.
C29_ProgressFinishedAtReturn ==
    (Last.op = "construct" /\ Last.initialLoadRan /\ ~hist.aborted) =>
        vs.progress = "Finished"

\* the first constructor on the view has returned after an initial load
\* that an exception left while it opened the cache files
C29_Witness ==
    /\ Last.op = "construct" /\ Last.initialLoadRan /\ ~hist.aborted
    /\ ctl[Last.c].pc = "ready"
    /\ hist.ops = 1
    /\ vs.progress = "LoadingCaches"

(***************************************************************************)
(* C30 on Spec                                                             *)
(***************************************************************************)
\* the start addresses of the image regions whose name contains __LINKEDIT
LinkeditStarts(st) ==
    UNION { { st.images[i].regions[k].start :
                k \in { j \in DOMAIN st.images[i].regions :
                          NameContainsLinkedit(st.images[i].regions[j].prettyName) } } :
            i \in DOMAIN st.images }

\* C30: while allowLoadingLinkeditSegments is false no load_image,
\* load_image_containing or load_section_at materializes a __LINKEDIT
\* region: in every State every image region whose name contains
\* __LINKEDIT has loaded = false and is not in regionsMappedIntoMemory.
C30_LinkeditNeverMaterialized ==
    ~view.settings.allowLoadingLinkeditSegments =>
        \A o \in DOMAIN heap :
            /\ \A i \in DOMAIN heap[o].images : \A k \in DOMAIN heap[o].images[i].regions :
                  NameContainsLinkedit(heap[o].images[i].regions[k].prettyName) =>
                      ~heap[o].images[i].regions[k].loaded
            /\ \A m \in DOMAIN heap[o].regionsMappedIntoMemory :
                  heap[o].regionsMappedIntoMemory[m].start \notin LinkeditStarts(heap[o])

\* load_section_at on an address of the __LINKEDIT region of libsystem_c
\* has returned true: the region is loaded and has a host-view segment
C30_Witness ==
    /\ ~view.settings.allowLoadingLinkeditSegments
    /\ Last.op = "load_section_at" /\ Last.address = 3 /\ Last.result /\ ~hist.aborted
    /\ Last.segsAdded = 1
    /\ \E m \in DOMAIN LastState.regionsMappedIntoMemory :
          LastState.regionsMappedIntoMemory[m].start \in LinkeditStarts(LastState)
    /\ \E i \in DOMAIN heap[vs.cachedState].images :
          \E k \in DOMAIN heap[vs.cachedState].images[i].regions :
              /\ NameContainsLinkedit(heap[vs.cachedState].images[i].regions[k].prettyName)
              /\ heap[vs.cachedState].images[i].regions[k].loaded
====
